---- MODULE Spec2Model ----
(***************************************************************************)
(* Lifecycle and reference counting of the fluidsynth2 handles: Settings,  *)
(* Synth, Player, AudioDriver and FileRenderer.  Goroutines run the        *)
(* package's functions one shared-memory access (lock, atomic load/store,  *)
(* field read/write, foreign call) at a time.                              *)
(***************************************************************************)
EXTENDS Integers, FiniteSets, Sequences, TLC

\* ------------------------------------------------------------------ bounds
NThreads == 2
NSettings == 1
NSynths == 2
NKeys == 1
NOutputs == 1
\* the longest sample buffer
MaxLen == 8
\* the width of Go's int and of C's int, scaled down from 64 and 32 bits
IntBits == 5
CIntBits == 4

Threads == 1..NThreads
SettingsIds == 1..NSettings
SynthIds == 1..NSynths
Keys == 1..NKeys
PlayerIds == 1..NOutputs
DriverIds == 1..NOutputs
RendererIds == 1..NOutputs
\* every C string the interner can allocate: one per key between two flushes,
\* and one more per key for lookups that run after the last flush
CStrings == 1..(NKeys * (NSettings + 1))

\* two's-complement integers of a given width
Pow2(n) == 2^n
Wrap(x, bits) == ((x + Pow2(bits - 1)) % Pow2(bits)) - Pow2(bits - 1)
\* Go's int: arithmetic wraps around silently
MinInt == -Pow2(IntBits - 1)
MaxInt == Pow2(IntBits - 1) - 1
Ints == MinInt..MaxInt
GoInt(x) == Wrap(x, IntBits)
\* the conversion C.int(x)
CInt(x) == Wrap(x, CIntBits)
\* Go's integer division for a non-zero divisor: the quotient is truncated
\* toward zero (and MinInt / -1 wraps around to MinInt)
Abs(x) == IF x < 0 THEN -x ELSE x
Quot(a, b) ==
    GoInt(IF (a < 0) = (b < 0) THEN Abs(a) \div Abs(b) ELSE -(Abs(a) \div Abs(b)))
\* the lengths a sample buffer can have
Lens == 0..MaxLen

NULL == 0

\* the status codes of the foreign engine
FLUID_OK == 0
FLUID_FAILED == -1
\* what a foreign call can return: failure, FLUID_OK, and a positive value
Statuses == {FLUID_FAILED, FLUID_OK, 1}

\* enum fluid_player_status of the foreign engine
C_FLUID_PLAYER_READY == 0
C_FLUID_PLAYER_PLAYING == 1
C_FLUID_PLAYER_STOPPING == 2
C_FLUID_PLAYER_DONE == 3

VARIABLES
    settings,          \* [SettingsIds -> Settings struct]; made: the struct exists
    synth,             \* [SynthIds -> Synth struct]
    player,            \* [PlayerIds -> Player struct]
    driver,            \* [DriverIds -> AudioDriver struct]
    renderer,          \* [RendererIds -> FileRenderer struct]
    playback,          \* [PlayerIds -> status code of the foreign player]
    heap,              \* foreign objects, by kind and id: "none" | "live" | "freed" | "freed twice"
    settingNames,      \* the interner's map: isNil, and at: [Keys -> C string or NULL]
    cstr,              \* C strings: "none" | "live" | "freed" | "freed twice"
    settingsRefCount,  \* the package-level count of open Settings
    pc,                \* [Threads -> position in the function the goroutine runs]
    fn,                \* [Threads -> the function the goroutine called last]
    tgt,               \* [Threads -> the handle (receiver or argument) of the call]
    arg,               \* [Threads -> the second handle argument of the call]
    obj,               \* [Threads -> the foreign pointer a constructor got]
    key,               \* [Threads -> the setting name of the call]
    name,              \* [Threads -> the C string cname() returned to the call]
    ret,               \* [Threads -> result of the call, once it reached "done"]
    frame,             \* [Threads -> the other parameters and local variables of the call]
    fault              \* "none" | "bad call": a foreign call was made on a freed or NULL object

handles == <<settings, synth>>
outputs == <<player, driver, renderer, playback>>
interner == <<settingNames, cstr, settingsRefCount>>
locals == <<fn, tgt, arg, obj, key, name, frame>>
vars == <<settings, synth, player, driver, renderer, playback, heap, settingNames, cstr,
          settingsRefCount, pc, fn, tgt, arg, obj, key, name, ret, frame, fault>>

\* ------------------------------------------------------------------ results
\* error values: err is the message of the fmt.Errorf, n its %d argument
\* (and val the value returned with a nil error: 1 for true, 0 for false)
NoErr == [err |-> "nil", n |-> 0, val |-> 0]
Value(v) == [err |-> "nil", n |-> 0, val |-> v]
Err(e) == [err |-> e, n |-> 0, val |-> 0]
StillReferenced(count) ==
    [err |-> "cannot close Settings: still referenced by %d Synth instance(s)",
     n |-> count, val |-> 0]
NoRet == [err |-> "-", n |-> 0, val |-> 0]

\* the parameters and local variables of the sample-writing and Player calls:
\* len(left), len(right), lstride, rstride and nframes of WriteS16/WriteFloat,
\* the TempoType of SetTempo, len(data) of AddMem, sfid of SFReload, resetPresets
\* of SFLoad, the status the foreign call returned and the string GetStatus
\* returns; sent is the list of the integer
\* arguments handed to the foreign call, <<>> while none was made
NoFrame == [left |-> 0, right |-> 0, lstride |-> 0, rstride |-> 0, nframes |-> 0,
            tempoType |-> 0, data |-> 0, sfid |-> 0, reset |-> FALSE, status |-> 0, result |-> "", sent |-> <<>>]

\* ------------------------------------------------------------------ structs
NoSettings == [made |-> FALSE, ptr |-> NULL, closed |-> FALSE, refCount |-> 0,
               mu |-> 0, fin |-> FALSE]
\* origin is history: the Settings the Synth was created from (settings is
\* set to nil by Close)
NoSynth == [made |-> FALSE, ptr |-> NULL, settings |-> NULL, closed |-> FALSE,
            mu |-> 0, fin |-> FALSE, origin |-> NULL]

NoPlayer == [made |-> FALSE, ptr |-> NULL, synth |-> NULL, closed |-> FALSE,
             mu |-> 0, fin |-> FALSE]
NoAudioDriver == [made |-> FALSE, ptr |-> NULL, settings |-> NULL, synth |-> NULL,
                  closed |-> FALSE, mu |-> 0, fin |-> FALSE]
NoFileRenderer == [made |-> FALSE, ptr |-> NULL, synth |-> NULL, closed |-> FALSE,
                   mu |-> 0, fin |-> FALSE]

Objs == ({"settings"} \X SettingsIds) \cup ({"synth"} \X SynthIds) \cup
        ({"player"} \X PlayerIds) \cup ({"driver"} \X DriverIds) \cup
        ({"renderer"} \X RendererIds)

\* a nil map
NilMap == [isNil |-> TRUE, at |-> [k \in Keys |-> NULL]]

Init ==
    /\ settings = [s \in SettingsIds |-> NoSettings]
    /\ synth = [y \in SynthIds |-> NoSynth]
    /\ player = [p \in PlayerIds |-> NoPlayer]
    /\ driver = [d \in DriverIds |-> NoAudioDriver]
    /\ renderer = [r \in RendererIds |-> NoFileRenderer]
    /\ playback = [p \in PlayerIds |-> C_FLUID_PLAYER_READY]
    /\ heap = [o \in Objs |-> "none"]
    /\ settingNames = NilMap
    /\ cstr = [c \in CStrings |-> "none"]
    /\ settingsRefCount = 0
    /\ pc = [t \in Threads |-> "idle"]
    /\ fn = [t \in Threads |-> "-"]
    /\ tgt = [t \in Threads |-> NULL]
    /\ arg = [t \in Threads |-> NULL]
    /\ obj = [t \in Threads |-> NULL]
    /\ key = [t \in Threads |-> NULL]
    /\ name = [t \in Threads |-> NULL]
    /\ ret = [t \in Threads |-> NoRet]
    /\ frame = [t \in Threads |-> NoFrame]
    /\ fault = "none"

\* ------------------------------------------------------------------ foreign engine
\* free() / delete_fluid_*(): a second free of the same object is kept visible
Freed(state) == IF state = "live" THEN "freed" ELSE "freed twice"

\* the lowest unused id of a kind: the object a successful allocation returns
Unused(kind, ids) == {i \in ids : heap[<<kind, i>>] = "none"}
Lowest(S) == CHOOSE i \in S : \A j \in S : i <= j

\* goroutine t is between two calls
Free(t) == pc[t] \in {"idle", "done"}

\* goroutine t, between two calls, enters a function and reaches position p
Enter(t, p) == pc' = [pc EXCEPT ![t] = p] /\ ret' = [ret EXCEPT ![t] = NoRet]

\* the locals of a call by goroutine t of function f on handle h
Locals(t, f, h) ==
    /\ fn' = [fn EXCEPT ![t] = f]
    /\ tgt' = [tgt EXCEPT ![t] = h]
    /\ arg' = [arg EXCEPT ![t] = NULL]
    /\ obj' = [obj EXCEPT ![t] = NULL]
    /\ name' = [name EXCEPT ![t] = NULL]
    /\ frame' = [frame EXCEPT ![t] = NoFrame]

\* the same for a call with the further parameters fr
Params(t, f, h, fr) ==
    /\ fn' = [fn EXCEPT ![t] = f]
    /\ tgt' = [tgt EXCEPT ![t] = h]
    /\ arg' = [arg EXCEPT ![t] = NULL]
    /\ obj' = [obj EXCEPT ![t] = NULL]
    /\ name' = [name EXCEPT ![t] = NULL]
    /\ frame' = [frame EXCEPT ![t] = fr]

\* goroutine t enters function f at position p with handle h
Call(t, p, f, h) ==
    /\ Free(t)
    /\ Enter(t, p)
    /\ Locals(t, f, h)

\* goroutine t is at position p
At(t, p) == pc[t] = p

\* goroutine t moves to position p
Goto(t, p) == pc' = [pc EXCEPT ![t] = p] /\ ret' = ret

\* the call of goroutine t returns r
Return(t, r) ==
    /\ pc' = [pc EXCEPT ![t] = "done"]
    /\ ret' = [ret EXCEPT ![t] = r]

\* goroutines inside a foreign call on the object of handle h (the call has
\* not returned); p is the position inside the call
InCall(p, h) == {t \in Threads : pc[t] = p /\ tgt[t] = h}

\* A foreign call that is handed a NULL or freed object, and a free of an
\* object a foreign call is still using, are undefined behaviour of the C
\* library. The process may abort (the behaviour stops there, which every
\* specification below allows) or go on with any result the call can give.
FaultAfter(bad) ==
    fault' = IF bad THEN "bad call" ELSE fault

\* ------------------------------------------------------------------ interner
\* the entries of the map (a nil map has none: cname() replaces it by an
\* empty one before the lookup)
NamesMap == settingNames.at

\* cname(name), run under settingNamesMu: the cached C string, or a new one
cnameString(k) ==
    IF NamesMap[k] # NULL THEN NamesMap[k]
    ELSE Lowest({c \in DOMAIN cstr : cstr[c] = "none"})

cname(t, k) ==
    /\ name' = [name EXCEPT ![t] = cnameString(k)]
    /\ settingNames' = [isNil |-> FALSE, at |-> [NamesMap EXCEPT ![k] = cnameString(k)]]
    /\ cstr' = [cstr EXCEPT ![cnameString(k)] = "live"]

\* A faulty cleanupSettingNames: the strings are freed and the map is kept.
cleanupSettingNames_KeepMap ==
    /\ cstr' = [c \in DOMAIN cstr |->
                  IF \E k \in DOMAIN NamesMap : NamesMap[k] = c
                  THEN Freed(cstr[c]) ELSE cstr[c]]
    /\ UNCHANGED settingNames

\* cleanupSettingNames(), run under settingNamesMu: every cached C string is
\* freed and the map becomes nil
cleanupSettingNames ==
    /\ cstr' = [c \in DOMAIN cstr |->
                  IF \E k \in DOMAIN NamesMap : NamesMap[k] = c
                  THEN Freed(cstr[c]) ELSE cstr[c]]
    /\ settingNames' = [isNil |-> TRUE, at |-> [k \in DOMAIN NamesMap |-> NULL]]

\* goroutines that handed C string c to a foreign call that has not returned
Passing(c) == {t \in Threads : pc[t] = "SetInt_ret" /\ name[t] = c}

\* ------------------------------------------------------------------ Settings
\* func NewSettings() (*Settings, error)
\* ptr := C.new_fluid_settings(); if ptr == nil { return nil, error }
NewSettings_new(t) ==
    /\ Free(t)
    /\ fn' = [fn EXCEPT ![t] = "NewSettings"]
    /\ frame' = [frame EXCEPT ![t] = NoFrame]
    /\ tgt' = [tgt EXCEPT ![t] = NULL]
    /\ name' = [name EXCEPT ![t] = NULL]
    /\ arg' = [arg EXCEPT ![t] = NULL]
    /\ \/ /\ Return(t, Err("failed to create FluidSynth settings"))
          /\ obj' = [obj EXCEPT ![t] = NULL]
          /\ UNCHANGED heap
       \/ /\ Unused("settings", DOMAIN settings) # {}
          /\ LET s == Lowest(Unused("settings", DOMAIN settings)) IN
             /\ heap' = [heap EXCEPT ![<<"settings", s>>] = "live"]
             /\ obj' = [obj EXCEPT ![t] = s]
          /\ Enter(t, "NewSettings_ref")
    /\ UNCHANGED <<outputs, handles, interner, key, fault>>

\* A faulty NewSettings: the new Settings is not counted in settingsRefCount.
NewSettings_ref_Uncounted(t) ==
    /\ At(t, "NewSettings_ref")
    /\ settings' = [settings EXCEPT ![obj[t]] =
                      [made |-> TRUE, ptr |-> obj[t], closed |-> FALSE,
                       refCount |-> 0, mu |-> 0, fin |-> TRUE]]
    /\ Return(t, NoErr)
    /\ UNCHANGED <<outputs, synth, heap, interner, locals, fault>>

\* s := &Settings{ptr: ptr}; atomic.AddInt32(&settingsRefCount, 1);
\* runtime.SetFinalizer(s, ...); return s, nil
NewSettings_ref(t) ==
    /\ At(t, "NewSettings_ref")
    /\ settings' = [settings EXCEPT ![obj[t]] =
                      [made |-> TRUE, ptr |-> obj[t], closed |-> FALSE,
                       refCount |-> 0, mu |-> 0, fin |-> TRUE]]
    /\ settingsRefCount' = settingsRefCount + 1
    /\ Return(t, NoErr)
    /\ UNCHANGED <<outputs, synth, heap, settingNames, cstr, locals, fault>>

\* A faulty incRef: the counter is stored, not added to (refCount.Store(1)).
incRef_Store(S, s) == [S EXCEPT ![s].refCount = 1]

\* A faulty decRef: the decrement is left out.
decRef_Skip(S, s) == S

\* func (s *Settings) incRef()
incRef(S, s) == [S EXCEPT ![s].refCount = @ + 1]

\* A faulty decRef: the counter is decremented by two.
decRef_Twice(S, s) == [S EXCEPT ![s].refCount = @ - 2]

\* func (s *Settings) decRef()
decRef(S, s) == [S EXCEPT ![s].refCount = @ - 1]

\* func (s *Settings) Close() error
CallSettingsClose(t, s) ==
    /\ settings[s].made
    /\ Call(t, "Settings_Close_lock", "Settings.Close", s)
    /\ UNCHANGED <<outputs, handles, heap, interner, key, fault>>

\* s.mu.Lock(); if s.closed.Load() { return nil }
Settings_Close_lock(t) ==
    /\ At(t, "Settings_Close_lock")
    /\ settings[tgt[t]].mu = 0
    /\ IF settings[tgt[t]].closed
       THEN Return(t, NoErr) /\ UNCHANGED settings
       ELSE /\ settings' = [settings EXCEPT ![tgt[t]].mu = t]
            /\ Goto(t, "Settings_Close_ref")
    /\ UNCHANGED <<outputs, synth, heap, interner, locals, fault>>

\* A faulty Settings.Close: the test of the dependency counter is left out.
Settings_Close_ref_Unchecked(t) ==
    /\ At(t, "Settings_Close_ref")
    /\ settings' = [settings EXCEPT ![tgt[t]].closed = TRUE]
    /\ Goto(t, "Settings_Close_delete")
    /\ UNCHANGED <<outputs, synth, heap, interner, locals, fault>>

\* A faulty Settings.Close: the StillReferenced return does not release the
\* lock (no deferred Unlock).
Settings_Close_ref_NoUnlock(t) ==
    /\ At(t, "Settings_Close_ref")
    /\ LET count == settings[tgt[t]].refCount IN
       IF count > 0
       THEN /\ UNCHANGED settings
            /\ Return(t, StillReferenced(count))
       ELSE /\ settings' = [settings EXCEPT ![tgt[t]].closed = TRUE]
            /\ Goto(t, "Settings_Close_delete")
    /\ UNCHANGED <<outputs, synth, heap, interner, locals, fault>>

\* A faulty Settings.Close: the counter is compared with 1, so that a Settings
\* with one dependent Synth is closed.
Settings_Close_ref_OffByOne(t) ==
    /\ At(t, "Settings_Close_ref")
    /\ LET count == settings[tgt[t]].refCount IN
       IF count > 1
       THEN /\ settings' = [settings EXCEPT ![tgt[t]].mu = 0]
            /\ Return(t, StillReferenced(count))
       ELSE /\ settings' = [settings EXCEPT ![tgt[t]].closed = TRUE]
            /\ Goto(t, "Settings_Close_delete")
    /\ UNCHANGED <<outputs, synth, heap, interner, locals, fault>>

\* A faulty Settings.Close: the finalizer is cleared before the test of the
\* dependency counter.
Settings_Close_ref_NoFinalizer(t) ==
    /\ At(t, "Settings_Close_ref")
    /\ LET count == settings[tgt[t]].refCount IN
       IF count > 0
       THEN /\ settings' = [settings EXCEPT ![tgt[t]].mu = 0, ![tgt[t]].fin = FALSE]
            /\ Return(t, StillReferenced(count))
       ELSE /\ settings' = [settings EXCEPT ![tgt[t]].closed = TRUE]
            /\ Goto(t, "Settings_Close_delete")
    /\ UNCHANGED <<outputs, synth, heap, interner, locals, fault>>

\* if count := s.refCount.Load(); count > 0 { return error }; s.closed.Store(true)
Settings_Close_ref(t) ==
    /\ At(t, "Settings_Close_ref")
    /\ LET count == settings[tgt[t]].refCount IN
       IF count > 0
       THEN /\ settings' = [settings EXCEPT ![tgt[t]].mu = 0]
            /\ Return(t, StillReferenced(count))
       ELSE /\ settings' = [settings EXCEPT ![tgt[t]].closed = TRUE]
            /\ Goto(t, "Settings_Close_delete")
    /\ UNCHANGED <<outputs, synth, heap, interner, locals, fault>>

\* if s.ptr != nil { C.delete_fluid_settings(s.ptr); s.ptr = nil };
\* runtime.SetFinalizer(s, nil)
Settings_Close_delete(t) ==
    /\ At(t, "Settings_Close_delete")
    /\ LET s == tgt[t] IN
       /\ IF settings[s].ptr # NULL
          THEN /\ heap' = [heap EXCEPT ![<<"settings", settings[s].ptr>>] = Freed(@)]
               /\ FaultAfter(InCall("SetInt_ret", s) # {})
          ELSE UNCHANGED <<heap, fault>>
       /\ settings' = [settings EXCEPT ![s].ptr = NULL, ![s].fin = FALSE]
    /\ Goto(t, "Settings_Close_global")
    /\ UNCHANGED <<outputs, synth, interner, locals>>

\* if atomic.AddInt32(&settingsRefCount, -1) == 0 { cleanupSettingNames() }
Settings_Close_global(t) ==
    /\ At(t, "Settings_Close_global")
    /\ settingsRefCount' = settingsRefCount - 1
    /\ IF settingsRefCount' = 0
       THEN Goto(t, "Settings_Close_cleanup") /\ UNCHANGED settings
       ELSE /\ settings' = [settings EXCEPT ![tgt[t]].mu = 0]
            /\ Return(t, NoErr)
    /\ UNCHANGED <<outputs, synth, heap, settingNames, cstr, locals, fault>>

\* cleanupSettingNames(); return nil (and the deferred s.mu.Unlock())
Settings_Close_cleanup(t) ==
    /\ At(t, "Settings_Close_cleanup")
    /\ cleanupSettingNames
    /\ FaultAfter(\E k \in DOMAIN NamesMap :
                      NamesMap[k] # NULL /\ Passing(NamesMap[k]) # {})
    /\ settings' = [settings EXCEPT ![tgt[t]].mu = 0]
    /\ Return(t, NoErr)
    /\ UNCHANGED <<outputs, synth, heap, settingsRefCount, locals>>

\* func (s *Settings) validate() error, on the fields as they are in this state
Settings_validate(s) ==
    IF settings[s].closed THEN Err("Settings is closed")
    ELSE IF settings[s].ptr = NULL THEN Err("Settings pointer is nil")
    ELSE NoErr

\* A faulty SetInt: validate() does not test the closed flag.
SetInt_closed_Unchecked(t, s, k) ==
    /\ Free(t)
    /\ settings[s].made
    /\ Locals(t, "Settings.SetInt", s)
    /\ key' = [key EXCEPT ![t] = k]
    /\ Enter(t, "SetInt_ptr")
    /\ UNCHANGED <<outputs, handles, heap, interner, fault>>

\* func (s *Settings) SetInt(name string, val int) error
\* validate(): if s.closed.Load() { return error }
SetInt_closed(t, s, k) ==
    /\ Free(t)
    /\ settings[s].made
    /\ Locals(t, "Settings.SetInt", s)
    /\ key' = [key EXCEPT ![t] = k]
    /\ IF settings[s].closed
       THEN Return(t, Err("Settings is closed"))
       ELSE Enter(t, "SetInt_ptr")
    /\ UNCHANGED <<outputs, handles, heap, interner, fault>>

\* validate(): if s.ptr == nil { return error }
SetInt_ptr(t) ==
    /\ At(t, "SetInt_ptr")
    /\ IF settings[tgt[t]].ptr = NULL
       THEN Return(t, Err("Settings pointer is nil"))
       ELSE Goto(t, "SetInt_cname")
    /\ UNCHANGED <<outputs, handles, heap, interner, locals, fault>>

\* A faulty lookup: cname() without settingNamesMu; the test of the map and
\* the allocation and store of a new string are two steps.
SetInt_cname_Unlocked(t) ==
    /\ \/ /\ At(t, "SetInt_cname")
          /\ IF NamesMap[key[t]] # NULL
             THEN /\ name' = [name EXCEPT ![t] = NamesMap[key[t]]]
                  /\ Goto(t, "SetInt_call")
             ELSE /\ Goto(t, "SetInt_cname_alloc")
                  /\ UNCHANGED name
          /\ UNCHANGED <<settingNames, cstr>>
       \/ /\ At(t, "SetInt_cname_alloc")
          /\ LET c == Lowest({i \in DOMAIN cstr : cstr[i] = "none"}) IN
             /\ name' = [name EXCEPT ![t] = c]
             /\ settingNames' = [isNil |-> FALSE, at |-> [NamesMap EXCEPT ![key[t]] = c]]
             /\ cstr' = [cstr EXCEPT ![c] = "live"]
          /\ Goto(t, "SetInt_call")
    /\ UNCHANGED <<outputs, handles, heap, settingsRefCount, fn, tgt, arg, obj, key, frame, fault>>

\* the argument cname(name)
SetInt_cname(t) ==
    /\ At(t, "SetInt_cname")
    /\ cname(t, key[t])
    /\ Goto(t, "SetInt_call")
    /\ UNCHANGED <<outputs, handles, heap, settingsRefCount, fn, tgt, arg, obj, key, frame, fault>>

\* C.fluid_settings_setint(s.ptr, cname, val) is entered
SetInt_call(t) ==
    /\ At(t, "SetInt_call")
    /\ FaultAfter(heap[<<"settings", tgt[t]>>] # "live" \/ cstr[name[t]] # "live")
    /\ Goto(t, "SetInt_ret")
    /\ UNCHANGED <<outputs, handles, heap, interner, locals>>

\* C.fluid_settings_setint returns: if status != 1 { return error }; return nil
SetInt_ret(t) ==
    /\ At(t, "SetInt_ret")
    /\ \E status \in Statuses :
         /\ frame' = [frame EXCEPT ![t].status = status]
         /\ Return(t, IF status # 1 THEN Err("failed to set int setting %s") ELSE NoErr)
    /\ UNCHANGED <<outputs, handles, heap, interner, fn, tgt, arg, obj, key, name, fault>>

\* ------------------------------------------------------------------ Synth
\* A faulty NewSynth: the closed flag of the Settings is not tested.
NewSynth_closed_Unchecked(t, s) ==
    /\ Free(t)
    /\ s # NULL => settings[s].made
    /\ Locals(t, "NewSynth", s)
    /\ IF s = NULL THEN Return(t, Err("settings cannot be nil"))
       ELSE Enter(t, "NewSynth_ptr")
    /\ UNCHANGED <<outputs, handles, heap, interner, key, fault>>

\* func NewSynth(settings *Settings) (*Synth, error)
\* if settings == nil { return error }; if settings.closed.Load() { return error }
NewSynth_closed(t, s) ==
    /\ Free(t)
    /\ s # NULL => settings[s].made
    /\ Locals(t, "NewSynth", s)
    /\ IF s = NULL THEN Return(t, Err("settings cannot be nil"))
       ELSE IF settings[s].closed THEN Return(t, Err("settings is closed"))
       ELSE Enter(t, "NewSynth_ptr")
    /\ UNCHANGED <<outputs, handles, heap, interner, key, fault>>

\* if settings.ptr == nil { return nil, error }
NewSynth_ptr(t) ==
    /\ At(t, "NewSynth_ptr")
    /\ IF settings[tgt[t]].ptr = NULL
       THEN Return(t, Err("settings pointer is nil"))
       ELSE Goto(t, "NewSynth_new")
    /\ UNCHANGED <<outputs, handles, heap, interner, locals, fault>>

\* A faulty NewSynth: the Settings is counted as referenced before the result
\* of the allocation is tested.
NewSynth_new_EarlyIncRef(t) ==
    /\ At(t, "NewSynth_new")
    /\ FaultAfter(heap[<<"settings", tgt[t]>>] # "live")
    /\ \/ /\ Return(t, Err("failed to create FluidSynth synthesizer"))
          /\ settings' = incRef(settings, tgt[t])
          /\ UNCHANGED <<heap, obj>>
       \/ /\ Unused("synth", SynthIds) # {}
          /\ LET y == Lowest(Unused("synth", SynthIds)) IN
             /\ heap' = [heap EXCEPT ![<<"synth", y>>] = "live"]
             /\ obj' = [obj EXCEPT ![t] = y]
          /\ Goto(t, "NewSynth_incRef")
          /\ UNCHANGED settings
    /\ UNCHANGED <<outputs, synth, interner, fn, tgt, arg, key, name, frame>>

\* ptr := C.new_fluid_synth(settings.ptr); if ptr == nil { return nil, error }
NewSynth_new(t) ==
    /\ At(t, "NewSynth_new")
    /\ FaultAfter(heap[<<"settings", tgt[t]>>] # "live")
    /\ \/ /\ Return(t, Err("failed to create FluidSynth synthesizer"))
          /\ UNCHANGED <<heap, obj>>
       \/ /\ Unused("synth", SynthIds) # {}
          /\ LET y == Lowest(Unused("synth", SynthIds)) IN
             /\ heap' = [heap EXCEPT ![<<"synth", y>>] = "live"]
             /\ obj' = [obj EXCEPT ![t] = y]
          /\ Goto(t, "NewSynth_incRef")
    /\ UNCHANGED <<outputs, handles, interner, fn, tgt, arg, key, name, frame>>

\* s := &Synth{ptr: ptr, settings: settings}; settings.incRef();
\* runtime.SetFinalizer(s, ...); return s, nil
NewSynth_incRef(t) ==
    /\ At(t, "NewSynth_incRef")
    /\ synth' = [synth EXCEPT ![obj[t]] =
                   [made |-> TRUE, ptr |-> obj[t], settings |-> tgt[t],
                    closed |-> FALSE, mu |-> 0, fin |-> TRUE, origin |-> tgt[t]]]
    /\ settings' = incRef(settings, tgt[t])
    /\ Return(t, NoErr)
    /\ UNCHANGED <<outputs, heap, interner, locals, fault>>

\* func (s *Synth) Close() error
CallSynthClose(t, y) ==
    /\ synth[y].made
    /\ Call(t, "Synth_Close_lock", "Synth.Close", y)
    /\ UNCHANGED <<outputs, handles, heap, interner, key, fault>>

\* the open Players, AudioDrivers and FileRenderers created from Synth y
Dependents(y) ==
    {<<"player", p>> : p \in {i \in PlayerIds : player[i].synth = y /\ ~player[i].closed}}
    \cup {<<"driver", d>> : d \in {i \in DriverIds : driver[i].synth = y /\ ~driver[i].closed}}
    \cup {<<"renderer", r>> : r \in {i \in RendererIds :
                                       renderer[i].synth = y /\ ~renderer[i].closed}}

\* A faulty Synth.Close: it refuses to close a Synth that an open Player,
\* AudioDriver or FileRenderer was created from.
Synth_Close_lock_Tracked(t) ==
    /\ At(t, "Synth_Close_lock")
    /\ synth[tgt[t]].mu = 0
    /\ IF synth[tgt[t]].closed
       THEN Return(t, NoErr) /\ UNCHANGED synth
       ELSE IF Dependents(tgt[t]) # {}
       THEN Return(t, Err("cannot close Synth: still referenced")) /\ UNCHANGED synth
       ELSE /\ synth' = [synth EXCEPT ![tgt[t]].mu = t, ![tgt[t]].closed = TRUE]
            /\ Goto(t, "Synth_Close_delete")
    /\ UNCHANGED <<outputs, settings, heap, interner, locals, fault>>

\* A faulty Synth.Close: the test of the closed flag is left out.
Synth_Close_lock_Unchecked(t) ==
    /\ At(t, "Synth_Close_lock")
    /\ synth[tgt[t]].mu = 0
    /\ synth' = [synth EXCEPT ![tgt[t]].mu = t, ![tgt[t]].closed = TRUE]
    /\ Goto(t, "Synth_Close_delete")
    /\ UNCHANGED <<outputs, settings, heap, interner, locals, fault>>

\* s.mu.Lock(); if s.closed.Load() { return nil }; s.closed.Store(true)
Synth_Close_lock(t) ==
    /\ At(t, "Synth_Close_lock")
    /\ synth[tgt[t]].mu = 0
    /\ IF synth[tgt[t]].closed
       THEN Return(t, NoErr) /\ UNCHANGED synth
       ELSE /\ synth' = [synth EXCEPT ![tgt[t]].mu = t, ![tgt[t]].closed = TRUE]
            /\ Goto(t, "Synth_Close_delete")
    /\ UNCHANGED <<outputs, settings, heap, interner, locals, fault>>

\* A faulty Synth.Close: delete_fluid_synth is called but the pointer is kept.
Synth_Close_delete_KeepPtr(t) ==
    /\ At(t, "Synth_Close_delete")
    /\ IF synth[tgt[t]].ptr # NULL
       THEN /\ heap' = [heap EXCEPT ![<<"synth", synth[tgt[t]].ptr>>] = Freed(@)]
            /\ FaultAfter(InCall("NoteOn_ret", tgt[t]) \cup InCall("WriteS16_ret", tgt[t])
                            \cup InCall("WriteFloat_ret", tgt[t]) # {})
       ELSE UNCHANGED <<heap, fault>>
    /\ Goto(t, "Synth_Close_decRef")
    /\ UNCHANGED <<outputs, handles, interner, locals>>

\* A faulty Synth.Close: the pointer is cleared but delete_fluid_synth is not
\* called.
Synth_Close_delete_Leak(t) ==
    /\ At(t, "Synth_Close_delete")
    /\ synth' = [synth EXCEPT ![tgt[t]].ptr = NULL]
    /\ Goto(t, "Synth_Close_decRef")
    /\ UNCHANGED <<outputs, settings, heap, interner, locals, fault>>

\* if s.ptr != nil { C.delete_fluid_synth(s.ptr); s.ptr = nil }
Synth_Close_delete(t) ==
    /\ At(t, "Synth_Close_delete")
    /\ LET y == tgt[t] IN
       /\ IF synth[y].ptr # NULL
          THEN /\ heap' = [heap EXCEPT ![<<"synth", synth[y].ptr>>] = Freed(@)]
               /\ FaultAfter(InCall("NoteOn_ret", y) \cup InCall("WriteS16_ret", y)
                            \cup InCall("WriteFloat_ret", y) \cup InCall("SFLoad_ret", y)
                            \cup InCall("SFReload_ret", y) # {})
          ELSE UNCHANGED <<heap, fault>>
       /\ synth' = [synth EXCEPT ![y].ptr = NULL]
    /\ Goto(t, "Synth_Close_decRef")
    /\ UNCHANGED <<outputs, settings, interner, locals>>

\* if s.settings != nil { s.settings.decRef(); s.settings = nil };
\* runtime.SetFinalizer(s, nil); return nil (and the deferred s.mu.Unlock())
Synth_Close_decRef(t) ==
    /\ At(t, "Synth_Close_decRef")
    /\ LET y == tgt[t] IN
       /\ settings' = IF synth[y].settings # NULL
                      THEN decRef(settings, synth[y].settings)
                      ELSE settings
       /\ synth' = [synth EXCEPT ![y].settings = NULL, ![y].fin = FALSE, ![y].mu = 0]
    /\ Return(t, NoErr)
    /\ UNCHANGED <<outputs, heap, interner, locals, fault>>

\* func (s *Synth) validate() error, on the fields as they are in this state
Synth_validate(y) ==
    IF synth[y].closed THEN Err("Synth is closed")
    ELSE IF synth[y].ptr = NULL THEN Err("Synth pointer is nil")
    ELSE NoErr

\* func (s *Synth) NoteOn(channel, note, velocity uint8) error
\* validate(): if s.closed.Load() { return error }
NoteOn_closed(t, y) ==
    /\ Free(t)
    /\ synth[y].made
    /\ Locals(t, "Synth.NoteOn", y)
    /\ IF synth[y].closed
       THEN Return(t, Err("Synth is closed"))
       ELSE Enter(t, "NoteOn_ptr")
    /\ UNCHANGED <<outputs, handles, heap, interner, key, fault>>

\* validate(): if s.ptr == nil { return error }
NoteOn_ptr(t) ==
    /\ At(t, "NoteOn_ptr")
    /\ IF synth[tgt[t]].ptr = NULL
       THEN Return(t, Err("Synth pointer is nil"))
       ELSE Goto(t, "NoteOn_call")
    /\ UNCHANGED <<outputs, handles, heap, interner, locals, fault>>

\* C.fluid_synth_noteon(s.ptr, ...) is entered
NoteOn_call(t) ==
    /\ At(t, "NoteOn_call")
    /\ FaultAfter(heap[<<"synth", tgt[t]>>] # "live")
    /\ Goto(t, "NoteOn_ret")
    /\ UNCHANGED <<outputs, handles, heap, interner, locals>>

\* C.fluid_synth_noteon returns: if result == C.FLUID_FAILED { return error }
NoteOn_ret(t) ==
    /\ At(t, "NoteOn_ret")
    /\ \E result \in Statuses :
         /\ frame' = [frame EXCEPT ![t].status = result]
         /\ Return(t, IF result = FLUID_FAILED THEN Err("failed to turn note on: channel=%d, note=%d, velocity=%d") ELSE NoErr)
    /\ UNCHANGED <<outputs, handles, heap, interner, fn, tgt, arg, obj, key, name, fault>>

\* func (s *Synth) WriteS16(left, right []int16, lstride, rstride int) error
\* func (s *Synth) WriteFloat(left, right []float32, lstride, rstride int) error
\* The two functions have the same body but for the foreign function called;
\* f is "WriteS16" or "WriteFloat". l and r are len(left) and len(right).

\* (len + stride - 1) / stride, for stride # 0
FramesOf(len, stride) == Quot(GoInt(GoInt(len + stride) - 1), stride)

\* nframes as the function computes it, for lstride # 0 and rstride # 0
Frames(l, r, ls, rs) ==
    IF FramesOf(r, rs) < FramesOf(l, ls) THEN FramesOf(r, rs) ELSE FramesOf(l, ls)

\* A faulty write: it takes the lock of the Synth, which Close holds while it
\* runs.
Write_closed_Locked(t, f, y, l, r, ls, rs) ==
    /\ Free(t)
    /\ synth[y].made
    /\ synth[y].mu = 0
    /\ Params(t, "Synth." \o f, y,
              [NoFrame EXCEPT !.left = l, !.right = r, !.lstride = ls, !.rstride = rs])
    /\ IF synth[y].closed
       THEN Return(t, Err("Synth is closed"))
       ELSE Enter(t, f \o "_ptr")
    /\ UNCHANGED <<outputs, handles, heap, interner, key, fault>>

\* validate(): if s.closed.Load() { return error }
Write_closed(t, f, y, l, r, ls, rs) ==
    /\ Free(t)
    /\ synth[y].made
    /\ Params(t, "Synth." \o f, y,
              [NoFrame EXCEPT !.left = l, !.right = r, !.lstride = ls, !.rstride = rs])
    /\ IF synth[y].closed
       THEN Return(t, Err("Synth is closed"))
       ELSE Enter(t, f \o "_ptr")
    /\ UNCHANGED <<outputs, handles, heap, interner, key, fault>>

\* validate(): if s.ptr == nil { return error }
Write_ptr(t, f) ==
    /\ At(t, f \o "_ptr")
    /\ IF synth[tgt[t]].ptr = NULL
       THEN Return(t, Err("Synth pointer is nil"))
       ELSE Goto(t, f \o "_call")
    /\ UNCHANGED <<outputs, handles, heap, interner, locals, fault>>

\* if len(left) == 0 || len(right) == 0 { return error };
\* nframes := (len(left) + lstride - 1) / lstride;
\* rframes := (len(right) + rstride - 1) / rstride;
\* if rframes < nframes { nframes = rframes }; if nframes == 0 { return error };
\* C.fluid_synth_write_*(s.ptr, C.int(nframes), &left[0], 0, C.int(lstride),
\* &right[0], 0, C.int(rstride)) is entered.
\* An integer division by zero is a run-time panic: the call does not return.
Write_call(t, f) ==
    /\ At(t, f \o "_call")
    /\ LET fr == frame[t] IN
       IF fr.left = 0 \/ fr.right = 0
       THEN /\ Return(t, Err("left and right slices must not be empty"))
            /\ UNCHANGED <<frame, fault>>
       ELSE IF fr.lstride = 0 \/ fr.rstride = 0
       THEN /\ pc' = [pc EXCEPT ![t] = "panicked"]
            /\ ret' = [ret EXCEPT ![t] =
                          Err("panic: runtime error: integer divide by zero")]
            /\ UNCHANGED <<frame, fault>>
       ELSE LET nframes == Frames(fr.left, fr.right, fr.lstride, fr.rstride) IN
            IF nframes = 0
            THEN /\ Return(t, Err("no frames to write"))
                 /\ frame' = [frame EXCEPT ![t].nframes = nframes]
                 /\ UNCHANGED fault
            ELSE /\ Goto(t, f \o "_ret")
                 /\ frame' = [frame EXCEPT
                                ![t].nframes = nframes,
                                ![t].sent = <<CInt(nframes), CInt(fr.lstride),
                                              CInt(fr.rstride)>>]
                 /\ FaultAfter(heap[<<"synth", tgt[t]>>] # "live")
    /\ UNCHANGED <<outputs, handles, heap, interner, fn, tgt, arg, obj, key, name>>

\* C.fluid_synth_write_* returns (its result is not read); return nil
Write_ret(t, f) ==
    /\ At(t, f \o "_ret")
    /\ Return(t, NoErr)
    /\ UNCHANGED <<outputs, handles, heap, interner, locals, fault>>

WriteS16_closed(t, y, l, r, ls, rs) == Write_closed(t, "WriteS16", y, l, r, ls, rs)
WriteS16_ptr(t) == Write_ptr(t, "WriteS16")
WriteS16_call(t) == Write_call(t, "WriteS16")
WriteS16_ret(t) == Write_ret(t, "WriteS16")

WriteFloat_closed(t, y, l, r, ls, rs) == Write_closed(t, "WriteFloat", y, l, r, ls, rs)
WriteFloat_ptr(t) == Write_ptr(t, "WriteFloat")
WriteFloat_call(t) == Write_call(t, "WriteFloat")
WriteFloat_ret(t) == Write_ret(t, "WriteFloat")

\* ------------------------------------------------------------------ Player
\* func NewPlayer(synth *Synth) (*Player, error)
\* if synth == nil { return error }; if synth.closed.Load() { return error }
NewPlayer_closed(t, y) ==
    /\ Free(t)
    /\ y # NULL => synth[y].made
    /\ Locals(t, "NewPlayer", y)
    /\ IF y = NULL THEN Return(t, Err("synth cannot be nil"))
       ELSE IF synth[y].closed THEN Return(t, Err("synth is closed"))
       ELSE Enter(t, "NewPlayer_ptr")
    /\ UNCHANGED <<outputs, handles, heap, interner, key, fault>>

\* if synth.ptr == nil { return nil, error }
NewPlayer_ptr(t) ==
    /\ At(t, "NewPlayer_ptr")
    /\ IF synth[tgt[t]].ptr = NULL
       THEN Return(t, Err("synth pointer is nil"))
       ELSE Goto(t, "NewPlayer_new")
    /\ UNCHANGED <<outputs, handles, heap, interner, locals, fault>>

\* ptr := C.new_fluid_player(synth.ptr); if ptr == nil { return nil, error };
\* p := &Player{ptr: ptr, synth: synth}; runtime.SetFinalizer(p, ...); return p, nil
NewPlayer_new(t) ==
    /\ At(t, "NewPlayer_new")
    /\ FaultAfter(heap[<<"synth", tgt[t]>>] # "live")
    /\ \/ /\ Return(t, Err("failed to create FluidSynth player"))
          /\ UNCHANGED <<heap, obj, player>>
       \/ /\ Unused("player", PlayerIds) # {}
          /\ LET p == Lowest(Unused("player", PlayerIds)) IN
             /\ heap' = [heap EXCEPT ![<<"player", p>>] = "live"]
             /\ obj' = [obj EXCEPT ![t] = p]
             /\ player' = [player EXCEPT ![p] =
                             [made |-> TRUE, ptr |-> p, synth |-> tgt[t],
                              closed |-> FALSE, mu |-> 0, fin |-> TRUE]]
          /\ Return(t, NoErr)
    /\ UNCHANGED <<driver, renderer, playback, handles, interner, fn, tgt, arg, key, name, frame>>

\* func (p *Player) Close() error
CallPlayerClose(t, p) ==
    /\ player[p].made
    /\ Call(t, "Player_Close_lock", "Player.Close", p)
    /\ UNCHANGED <<outputs, handles, heap, interner, key, fault>>

\* p.mu.Lock(); if p.closed.Load() { return nil }; p.closed.Store(true)
Player_Close_lock(t) ==
    /\ At(t, "Player_Close_lock")
    /\ player[tgt[t]].mu = 0
    /\ IF player[tgt[t]].closed
       THEN Return(t, NoErr) /\ UNCHANGED player
       ELSE /\ player' = [player EXCEPT ![tgt[t]].mu = t, ![tgt[t]].closed = TRUE]
            /\ Goto(t, "Player_Close_delete")
    /\ UNCHANGED <<driver, renderer, playback, handles, heap, interner, locals, fault>>

\* if p.ptr != nil { C.delete_fluid_player(p.ptr); p.ptr = nil }; p.synth = nil;
\* runtime.SetFinalizer(p, nil); return nil (and the deferred p.mu.Unlock())
Player_Close_delete(t) ==
    /\ At(t, "Player_Close_delete")
    /\ LET p == tgt[t] IN
       /\ IF player[p].ptr # NULL
          THEN /\ heap' = [heap EXCEPT ![<<"player", player[p].ptr>>] = Freed(@)]
               /\ FaultAfter(InCall("Join_ret", p) \cup InCall("SetTempo_ret", p)
                                \cup InCall("GetStatus_ret", p) \cup InCall("Play_ret", p)
                                \cup InCall("Stop_ret", p) \cup InCall("AddMem_ret", p) # {})
          ELSE UNCHANGED <<heap, fault>>
       /\ player' = [player EXCEPT ![p].ptr = NULL, ![p].synth = NULL,
                                   ![p].fin = FALSE, ![p].mu = 0]
    /\ Return(t, NoErr)
    /\ UNCHANGED <<driver, renderer, playback, handles, interner, locals>>

\* func (p *Player) validate() error, on the fields as they are in this state
Player_validate(p) ==
    IF player[p].closed THEN Err("player is closed")
    ELSE IF player[p].ptr = NULL THEN Err("player pointer is nil")
    ELSE NoErr

\* func (p *Player) Join() error
\* validate(): if p.closed.Load() { return error }
Join_closed(t, p) ==
    /\ Free(t)
    /\ player[p].made
    /\ Locals(t, "Player.Join", p)
    /\ IF player[p].closed
       THEN Return(t, Err("player is closed"))
       ELSE Enter(t, "Join_ptr")
    /\ UNCHANGED <<outputs, handles, heap, interner, key, fault>>

\* validate(): if p.ptr == nil { return error }
Join_ptr(t) ==
    /\ At(t, "Join_ptr")
    /\ IF player[tgt[t]].ptr = NULL
       THEN Return(t, Err("player pointer is nil"))
       ELSE Goto(t, "Join_call")
    /\ UNCHANGED <<outputs, handles, heap, interner, locals, fault>>

\* C.fluid_player_join(p.ptr) is entered
Join_call(t) ==
    /\ At(t, "Join_call")
    /\ FaultAfter(heap[<<"player", tgt[t]>>] # "live")
    /\ Goto(t, "Join_ret")
    /\ UNCHANGED <<outputs, handles, heap, interner, locals>>

\* A faulty join: the call returns only for a player that was never started.
Join_ret_UntilReady(t) ==
    /\ At(t, "Join_ret")
    /\ playback[tgt[t]] = C_FLUID_PLAYER_READY
    /\ \E result \in Statuses :
         /\ frame' = [frame EXCEPT ![t].status = result]
         /\ Return(t, IF result = FLUID_FAILED THEN Err("failed to join player") ELSE NoErr)
    /\ UNCHANGED <<outputs, handles, heap, interner, fn, tgt, arg, obj, key, name, fault>>

\* C.fluid_player_join returns: if result == C.FLUID_FAILED { return error }
\* (the engine lets the call return when the player is not playing)
Join_ret(t) ==
    /\ At(t, "Join_ret")
    /\ playback[tgt[t]] \notin {C_FLUID_PLAYER_PLAYING, C_FLUID_PLAYER_STOPPING}
    /\ \E result \in Statuses :
         /\ frame' = [frame EXCEPT ![t].status = result]
         /\ Return(t, IF result = FLUID_FAILED THEN Err("failed to join player") ELSE NoErr)
    /\ UNCHANGED <<outputs, handles, heap, interner, fn, tgt, arg, obj, key, name, fault>>

\* func cbool(b bool) C.int
cbool(b) == IF b THEN 1 ELSE 0

\* the values of a C.int
CInts == -Pow2(CIntBits - 1)..(Pow2(CIntBits - 1) - 1)

\* func (s *Synth) SFLoad(path string, resetPresets bool) (int, error)
\* validate(): if s.closed.Load() { return error }
SFLoad_closed(t, y, resetPresets) ==
    /\ Free(t)
    /\ synth[y].made
    /\ Params(t, "Synth.SFLoad", y, [NoFrame EXCEPT !.reset = resetPresets])
    /\ IF synth[y].closed
       THEN Return(t, Err("Synth is closed"))
       ELSE Enter(t, "SFLoad_ptr")
    /\ UNCHANGED <<outputs, handles, heap, interner, key, fault>>

\* validate(): if s.ptr == nil { return error }
SFLoad_ptr(t) ==
    /\ At(t, "SFLoad_ptr")
    /\ IF synth[tgt[t]].ptr = NULL
       THEN Return(t, Err("Synth pointer is nil"))
       ELSE Goto(t, "SFLoad_call")
    /\ UNCHANGED <<outputs, handles, heap, interner, locals, fault>>

\* cpath := C.CString(path) (freed when SFLoad returns); creset :=
\* cbool(resetPresets); C.fluid_synth_sfload(s.ptr, cpath, creset) is entered
SFLoad_call(t) ==
    /\ At(t, "SFLoad_call")
    /\ FaultAfter(heap[<<"synth", tgt[t]>>] # "live")
    /\ frame' = [frame EXCEPT ![t].sent = <<cbool(frame[t].reset)>>]
    /\ Goto(t, "SFLoad_ret")
    /\ UNCHANGED <<outputs, handles, heap, interner, fn, tgt, arg, obj, key, name>>

\* C.fluid_synth_sfload returns cfont_id, any C.int:
\* if cfont_id == C.FLUID_FAILED { return 0, error }; return int(cfont_id), nil
SFLoad_ret(t) ==
    /\ At(t, "SFLoad_ret")
    /\ \E cfont_id \in CInts :
         /\ frame' = [frame EXCEPT ![t].status = cfont_id]
         /\ Return(t, IF cfont_id = FLUID_FAILED
                      THEN Err("could not load soundfont")
                      ELSE Value(GoInt(cfont_id)))
    /\ UNCHANGED <<outputs, handles, heap, interner, fn, tgt, arg, obj, key, name, fault>>

\* func (s *Synth) SFReload(sfid int) (int, error)
\* validate(): if s.closed.Load() { return error }
SFReload_closed(t, y, sfid) ==
    /\ Free(t)
    /\ synth[y].made
    /\ Params(t, "Synth.SFReload", y, [NoFrame EXCEPT !.sfid = sfid])
    /\ IF synth[y].closed
       THEN Return(t, Err("Synth is closed"))
       ELSE Enter(t, "SFReload_ptr")
    /\ UNCHANGED <<outputs, handles, heap, interner, key, fault>>

\* validate(): if s.ptr == nil { return error }
SFReload_ptr(t) ==
    /\ At(t, "SFReload_ptr")
    /\ IF synth[tgt[t]].ptr = NULL
       THEN Return(t, Err("Synth pointer is nil"))
       ELSE Goto(t, "SFReload_call")
    /\ UNCHANGED <<outputs, handles, heap, interner, locals, fault>>

\* C.fluid_synth_sfreload(s.ptr, C.int(sfid)) is entered
SFReload_call(t) ==
    /\ At(t, "SFReload_call")
    /\ FaultAfter(heap[<<"synth", tgt[t]>>] # "live")
    /\ frame' = [frame EXCEPT ![t].sent = <<CInt(frame[t].sfid)>>]
    /\ Goto(t, "SFReload_ret")
    /\ UNCHANGED <<outputs, handles, heap, interner, fn, tgt, arg, obj, key, name>>

\* C.fluid_synth_sfreload returns cfont_id, any C.int:
\* if cfont_id == C.FLUID_FAILED { return 0, error }; return int(cfont_id), nil
SFReload_ret(t) ==
    /\ At(t, "SFReload_ret")
    /\ \E cfont_id \in CInts :
         /\ frame' = [frame EXCEPT ![t].status = cfont_id]
         /\ Return(t, IF cfont_id = FLUID_FAILED
                      THEN Err("could not reload soundfont")
                      ELSE Value(GoInt(cfont_id)))
    /\ UNCHANGED <<outputs, handles, heap, interner, fn, tgt, arg, obj, key, name, fault>>

\* func fluidStatus(i C.int) error
fluidStatus(i) == IF i = FLUID_FAILED THEN Err("Fail") ELSE NoErr

\* the conversion C.size_t(x) of an int: unsigned, as wide as int
SizeT(x) == x % Pow2(IntBits)

\* func (p *Player) AddMem(data []byte) error
\* validate(): if p.closed.Load() { return error }; n is len(data)
AddMem_closed(t, p, n) ==
    /\ Free(t)
    /\ player[p].made
    /\ Params(t, "Player.AddMem", p, [NoFrame EXCEPT !.data = n])
    /\ IF player[p].closed
       THEN Return(t, Err("player is closed"))
       ELSE Enter(t, "AddMem_ptr")
    /\ UNCHANGED <<outputs, handles, heap, interner, key, fault>>

\* validate(): if p.ptr == nil { return error }
AddMem_ptr(t) ==
    /\ At(t, "AddMem_ptr")
    /\ IF player[tgt[t]].ptr = NULL
       THEN Return(t, Err("player pointer is nil"))
       ELSE Goto(t, "AddMem_call")
    /\ UNCHANGED <<outputs, handles, heap, interner, locals, fault>>

\* A faulty AddMem: zero-length data is forwarded.
AddMem_call_Unchecked(t) ==
    /\ At(t, "AddMem_call")
    /\ Goto(t, "AddMem_ret")
    /\ frame' = [frame EXCEPT ![t].sent = <<SizeT(frame[t].data)>>]
    /\ FaultAfter(heap[<<"player", tgt[t]>>] # "live")
    /\ UNCHANGED <<outputs, handles, heap, interner, fn, tgt, arg, obj, key, name>>

\* if len(data) == 0 { return error }; cb := C.CBytes(data) (a copy, freed when
\* AddMem returns); C.fluid_player_add_mem(p.ptr, cb, C.size_t(len(data))) is
\* entered
AddMem_call(t) ==
    /\ At(t, "AddMem_call")
    /\ IF frame[t].data = 0
       THEN /\ Return(t, Err("empty MIDI data"))
            /\ UNCHANGED <<frame, fault>>
       ELSE /\ Goto(t, "AddMem_ret")
            /\ frame' = [frame EXCEPT ![t].sent = <<SizeT(frame[t].data)>>]
            /\ FaultAfter(heap[<<"player", tgt[t]>>] # "live")
    /\ UNCHANGED <<outputs, handles, heap, interner, fn, tgt, arg, obj, key, name>>

\* return fluidStatus(C.fluid_player_add_mem(...))
AddMem_ret(t) ==
    /\ At(t, "AddMem_ret")
    /\ \E status \in Statuses :
         /\ frame' = [frame EXCEPT ![t].status = status]
         /\ Return(t, fluidStatus(status))
    /\ UNCHANGED <<outputs, handles, heap, interner, fn, tgt, arg, obj, key, name, fault>>

\* func (p *Player) Play() error
\* validate(): if p.closed.Load() { return error }
Play_closed(t, p) ==
    /\ Free(t)
    /\ player[p].made
    /\ Locals(t, "Player.Play", p)
    /\ IF player[p].closed
       THEN Return(t, Err("player is closed"))
       ELSE Enter(t, "Play_ptr")
    /\ UNCHANGED <<outputs, handles, heap, interner, key, fault>>

\* validate(): if p.ptr == nil { return error }
Play_ptr(t) ==
    /\ At(t, "Play_ptr")
    /\ IF player[tgt[t]].ptr = NULL
       THEN Return(t, Err("player pointer is nil"))
       ELSE Goto(t, "Play_call")
    /\ UNCHANGED <<outputs, handles, heap, interner, locals, fault>>

\* C.fluid_player_play(p.ptr) is entered: the engine starts the playback, or
\* fails and leaves the player as it is
Play_call(t) ==
    /\ At(t, "Play_call")
    /\ FaultAfter(heap[<<"player", tgt[t]>>] # "live")
    /\ \E status \in Statuses :
         /\ frame' = [frame EXCEPT ![t].status = status]
         /\ playback' = IF status = FLUID_FAILED THEN playback
                        ELSE [playback EXCEPT ![tgt[t]] = C_FLUID_PLAYER_PLAYING]
    /\ Goto(t, "Play_ret")
    /\ UNCHANGED <<player, driver, renderer, handles, heap, interner,
                   fn, tgt, arg, obj, key, name>>

\* return fluidStatus(C.fluid_player_play(p.ptr))
Play_ret(t) ==
    /\ At(t, "Play_ret")
    /\ Return(t, fluidStatus(frame[t].status))
    /\ UNCHANGED <<outputs, handles, heap, interner, locals, fault>>

\* func (p *Player) Stop() error
\* validate(): if p.closed.Load() { return error }
Stop_closed(t, p) ==
    /\ Free(t)
    /\ player[p].made
    /\ Locals(t, "Player.Stop", p)
    /\ IF player[p].closed
       THEN Return(t, Err("player is closed"))
       ELSE Enter(t, "Stop_ptr")
    /\ UNCHANGED <<outputs, handles, heap, interner, key, fault>>

\* validate(): if p.ptr == nil { return error }
Stop_ptr(t) ==
    /\ At(t, "Stop_ptr")
    /\ IF player[tgt[t]].ptr = NULL
       THEN Return(t, Err("player pointer is nil"))
       ELSE Goto(t, "Stop_call")
    /\ UNCHANGED <<outputs, handles, heap, interner, locals, fault>>

\* C.fluid_player_stop(p.ptr) is entered: the engine begins to stop a playing
\* player
Stop_call(t) ==
    /\ At(t, "Stop_call")
    /\ FaultAfter(heap[<<"player", tgt[t]>>] # "live")
    /\ playback' = IF playback[tgt[t]] = C_FLUID_PLAYER_PLAYING
                   THEN [playback EXCEPT ![tgt[t]] = C_FLUID_PLAYER_STOPPING]
                   ELSE playback
    /\ frame' = [frame EXCEPT ![t].sent = <<tgt[t]>>]
    /\ Goto(t, "Stop_ret")
    /\ UNCHANGED <<player, driver, renderer, handles, heap, interner,
                   fn, tgt, arg, obj, key, name>>

\* C.fluid_player_stop returns: if result == C.FLUID_FAILED { return error }
Stop_ret(t) ==
    /\ At(t, "Stop_ret")
    /\ \E result \in Statuses :
         /\ frame' = [frame EXCEPT ![t].status = result]
         /\ Return(t, IF result = FLUID_FAILED THEN Err("failed to stop player") ELSE NoErr)
    /\ UNCHANGED <<outputs, handles, heap, interner, fn, tgt, arg, obj, key, name, fault>>

\* The foreign engine ends the playback of player p: the MIDI data is played to
\* its end, or the stop that was asked for has taken place.
PlaybackEnds(p) ==
    /\ heap[<<"player", p>>] = "live"
    /\ playback[p] \in {C_FLUID_PLAYER_PLAYING, C_FLUID_PLAYER_STOPPING}
    /\ playback' = [playback EXCEPT ![p] = C_FLUID_PLAYER_DONE]
    /\ UNCHANGED <<player, driver, renderer, handles, heap, interner, pc, ret, locals, fault>>

\* type TempoType int
TEMPO_INTERNAL == 0
TEMPO_EXTERNAL_BPM == 1
TEMPO_EXTERNAL_MIDI == 2

\* A faulty SetTempo: the tempo type is tested before the handle.
SetTempo_closed_ArgsFirst(t, p, mode) ==
    /\ Free(t)
    /\ player[p].made
    /\ Params(t, "Player.SetTempo", p, [NoFrame EXCEPT !.tempoType = mode])
    /\ IF mode < TEMPO_INTERNAL \/ mode > TEMPO_EXTERNAL_MIDI
       THEN Return(t, Err("invalid tempo type: %d"))
       ELSE IF player[p].closed
       THEN Return(t, Err("player is closed"))
       ELSE Enter(t, "SetTempo_ptr")
    /\ UNCHANGED <<outputs, handles, heap, interner, key, fault>>

\* func (p *Player) SetTempo(t TempoType, bpm float64) error
\* validate(): if p.closed.Load() { return error }
\* (bpm is handed to the foreign call as it is and is left out)
SetTempo_closed(t, p, mode) ==
    /\ Free(t)
    /\ player[p].made
    /\ Params(t, "Player.SetTempo", p, [NoFrame EXCEPT !.tempoType = mode])
    /\ IF player[p].closed
       THEN Return(t, Err("player is closed"))
       ELSE Enter(t, "SetTempo_ptr")
    /\ UNCHANGED <<outputs, handles, heap, interner, key, fault>>

\* validate(): if p.ptr == nil { return error }
SetTempo_ptr(t) ==
    /\ At(t, "SetTempo_ptr")
    /\ IF player[tgt[t]].ptr = NULL
       THEN Return(t, Err("player pointer is nil"))
       ELSE Goto(t, "SetTempo_call")
    /\ UNCHANGED <<outputs, handles, heap, interner, locals, fault>>

\* A faulty SetTempo: its range check is off by one at the upper end.
SetTempo_call_OffByOne(t) ==
    /\ At(t, "SetTempo_call")
    /\ IF frame[t].tempoType < TEMPO_INTERNAL \/ frame[t].tempoType > TEMPO_EXTERNAL_MIDI + 1
       THEN /\ Return(t, Err("invalid tempo type: %d"))
            /\ UNCHANGED <<frame, fault>>
       ELSE /\ Goto(t, "SetTempo_ret")
            /\ frame' = [frame EXCEPT ![t].sent = <<CInt(frame[t].tempoType)>>]
            /\ FaultAfter(heap[<<"player", tgt[t]>>] # "live")
    /\ UNCHANGED <<outputs, handles, heap, interner, fn, tgt, arg, obj, key, name>>

\* if t < TEMPO_INTERNAL || t > TEMPO_EXTERNAL_MIDI { return error };
\* C.fluid_player_set_tempo(p.ptr, C.int(t), C.double(bpm)) is entered
SetTempo_call(t) ==
    /\ At(t, "SetTempo_call")
    /\ IF frame[t].tempoType < TEMPO_INTERNAL \/ frame[t].tempoType > TEMPO_EXTERNAL_MIDI
       THEN /\ Return(t, Err("invalid tempo type: %d"))
            /\ UNCHANGED <<frame, fault>>
       ELSE /\ Goto(t, "SetTempo_ret")
            /\ frame' = [frame EXCEPT ![t].sent = <<CInt(frame[t].tempoType)>>]
            /\ FaultAfter(heap[<<"player", tgt[t]>>] # "live")
    /\ UNCHANGED <<outputs, handles, heap, interner, fn, tgt, arg, obj, key, name>>

\* C.fluid_player_set_tempo returns: if result == C.FLUID_FAILED { return error }
SetTempo_ret(t) ==
    /\ At(t, "SetTempo_ret")
    /\ \E result \in Statuses :
         /\ frame' = [frame EXCEPT ![t].status = result]
         /\ Return(t, IF result = FLUID_FAILED THEN Err("failed to set tempo") ELSE NoErr)
    /\ UNCHANGED <<outputs, handles, heap, interner, fn, tgt, arg, obj, key, name, fault>>

\* the status strings of the package
FLUID_PLAYER_READY == "READY"
FLUID_PLAYER_PLAYING == "PLAYING"
FLUID_PLAYER_STOPPING == "STOPPING"
FLUID_PLAYER_DONE == "DONE"

\* the codes fluid_player_get_status may return: those of the enum and others
StatusCodes == (C_FLUID_PLAYER_READY - 2)..(C_FLUID_PLAYER_DONE + 2)

\* the error of GetStatus for a code outside the enum; it carries the code
UnknownStatus(code) == [err |-> "unknown status code: %d", n |-> code, val |-> 0]

\* switch status { case C.FLUID_PLAYER_READY: ... default: ... }: the string
\* and the error GetStatus returns for a status code
StatusString(status) ==
    IF status = C_FLUID_PLAYER_READY THEN FLUID_PLAYER_READY
    ELSE IF status = C_FLUID_PLAYER_PLAYING THEN FLUID_PLAYER_PLAYING
    ELSE IF status = C_FLUID_PLAYER_STOPPING THEN FLUID_PLAYER_STOPPING
    ELSE IF status = C_FLUID_PLAYER_DONE THEN FLUID_PLAYER_DONE
    ELSE "UNKNOWN"

\* A faulty GetStatus: its error for an unknown code does not carry the code.
StatusError_NoCode(status) ==
    IF status \in {C_FLUID_PLAYER_READY, C_FLUID_PLAYER_PLAYING,
                   C_FLUID_PLAYER_STOPPING, C_FLUID_PLAYER_DONE}
    THEN NoErr
    ELSE Err("unknown status code: %d")

StatusError(status) ==
    IF status \in {C_FLUID_PLAYER_READY, C_FLUID_PLAYER_PLAYING,
                   C_FLUID_PLAYER_STOPPING, C_FLUID_PLAYER_DONE}
    THEN NoErr
    ELSE UnknownStatus(status)

\* func (p *Player) GetStatus() (string, error)
\* validate(): if p.closed.Load() { return "", error }
GetStatus_closed(t, p) ==
    /\ Free(t)
    /\ player[p].made
    /\ Locals(t, "Player.GetStatus", p)
    /\ IF player[p].closed
       THEN Return(t, Err("player is closed"))
       ELSE Enter(t, "GetStatus_ptr")
    /\ UNCHANGED <<outputs, handles, heap, interner, key, fault>>

\* validate(): if p.ptr == nil { return "", error }
GetStatus_ptr(t) ==
    /\ At(t, "GetStatus_ptr")
    /\ IF player[tgt[t]].ptr = NULL
       THEN Return(t, Err("player pointer is nil"))
       ELSE Goto(t, "GetStatus_call")
    /\ UNCHANGED <<outputs, handles, heap, interner, locals, fault>>

\* C.fluid_player_get_status(p.ptr) is entered
GetStatus_call(t) ==
    /\ At(t, "GetStatus_call")
    /\ FaultAfter(heap[<<"player", tgt[t]>>] # "live")
    /\ Goto(t, "GetStatus_ret")
    /\ UNCHANGED <<outputs, handles, heap, interner, locals>>

\* status := int(C.fluid_player_get_status(p.ptr)); switch status { ... }
GetStatus_ret(t) ==
    /\ At(t, "GetStatus_ret")
    /\ \E status \in StatusCodes :
         /\ frame' = [frame EXCEPT ![t].status = status,
                                   ![t].result = StatusString(status)]
         /\ Return(t, StatusError(status))
    /\ UNCHANGED <<outputs, handles, heap, interner, fn, tgt, arg, obj, key, name, fault>>

\* ------------------------------------------------------------------ AudioDriver
\* func NewAudioDriver(settings *Settings, synth *Synth) (*AudioDriver, error)
\* if settings == nil { return error }; if synth == nil { return error };
\* if settings.closed.Load() { return error }
NewAudioDriver_closed(t, s, y) ==
    /\ Free(t)
    /\ s # NULL => settings[s].made
    /\ y # NULL => synth[y].made
    /\ fn' = [fn EXCEPT ![t] = "NewAudioDriver"]
    /\ frame' = [frame EXCEPT ![t] = NoFrame]
    /\ tgt' = [tgt EXCEPT ![t] = y]
    /\ arg' = [arg EXCEPT ![t] = s]
    /\ obj' = [obj EXCEPT ![t] = NULL]
    /\ name' = [name EXCEPT ![t] = NULL]
    /\ IF s = NULL THEN Return(t, Err("settings cannot be nil"))
       ELSE IF y = NULL THEN Return(t, Err("synth cannot be nil"))
       ELSE IF settings[s].closed THEN Return(t, Err("settings is closed"))
       ELSE Enter(t, "NewAudioDriver_synth")
    /\ UNCHANGED <<outputs, handles, heap, interner, key, fault>>

\* A faulty NewAudioDriver: the closed flag of the Synth is not tested.
NewAudioDriver_synth_Unchecked(t) ==
    /\ At(t, "NewAudioDriver_synth")
    /\ Goto(t, "NewAudioDriver_ptr")
    /\ UNCHANGED <<outputs, handles, heap, interner, locals, fault>>

\* if synth.closed.Load() { return nil, error }
NewAudioDriver_synth(t) ==
    /\ At(t, "NewAudioDriver_synth")
    /\ IF synth[tgt[t]].closed
       THEN Return(t, Err("synth is closed"))
       ELSE Goto(t, "NewAudioDriver_ptr")
    /\ UNCHANGED <<outputs, handles, heap, interner, locals, fault>>

\* if settings.ptr == nil { return nil, error }
NewAudioDriver_ptr(t) ==
    /\ At(t, "NewAudioDriver_ptr")
    /\ IF settings[arg[t]].ptr = NULL
       THEN Return(t, Err("settings pointer is nil"))
       ELSE Goto(t, "NewAudioDriver_synthptr")
    /\ UNCHANGED <<outputs, handles, heap, interner, locals, fault>>

\* if synth.ptr == nil { return nil, error }
NewAudioDriver_synthptr(t) ==
    /\ At(t, "NewAudioDriver_synthptr")
    /\ IF synth[tgt[t]].ptr = NULL
       THEN Return(t, Err("synth pointer is nil"))
       ELSE Goto(t, "NewAudioDriver_new")
    /\ UNCHANGED <<outputs, handles, heap, interner, locals, fault>>

\* A faulty NewAudioDriver: it registers the driver in the dependency counter
\* of its Settings.
NewAudioDriver_new_Counted(t) ==
    /\ At(t, "NewAudioDriver_new")
    /\ FaultAfter(heap[<<"settings", arg[t]>>] # "live" \/
                  heap[<<"synth", tgt[t]>>] # "live")
    /\ \/ /\ Return(t, Err("failed to create audio driver"))
          /\ UNCHANGED <<heap, obj, driver, settings>>
       \/ /\ Unused("driver", DriverIds) # {}
          /\ LET d == Lowest(Unused("driver", DriverIds)) IN
             /\ heap' = [heap EXCEPT ![<<"driver", d>>] = "live"]
             /\ obj' = [obj EXCEPT ![t] = d]
             /\ driver' = [driver EXCEPT ![d] =
                             [made |-> TRUE, ptr |-> d, settings |-> arg[t],
                              synth |-> tgt[t], closed |-> FALSE, mu |-> 0,
                              fin |-> TRUE]]
          /\ settings' = [settings EXCEPT ![arg[t]].refCount = @ + 1]
          /\ Return(t, NoErr)
    /\ UNCHANGED <<player, renderer, playback, synth, interner, fn, tgt, arg, key, name, frame>>

\* ptr := C.new_fluid_audio_driver(settings.ptr, synth.ptr);
\* if ptr == nil { return nil, error };
\* d := &AudioDriver{...}; runtime.SetFinalizer(d, ...); return d, nil
NewAudioDriver_new(t) ==
    /\ At(t, "NewAudioDriver_new")
    /\ FaultAfter(heap[<<"settings", arg[t]>>] # "live" \/
                  heap[<<"synth", tgt[t]>>] # "live")
    /\ \/ /\ Return(t, Err("failed to create audio driver"))
          /\ UNCHANGED <<heap, obj, driver>>
       \/ /\ Unused("driver", DriverIds) # {}
          /\ LET d == Lowest(Unused("driver", DriverIds)) IN
             /\ heap' = [heap EXCEPT ![<<"driver", d>>] = "live"]
             /\ obj' = [obj EXCEPT ![t] = d]
             /\ driver' = [driver EXCEPT ![d] =
                             [made |-> TRUE, ptr |-> d, settings |-> arg[t],
                              synth |-> tgt[t], closed |-> FALSE, mu |-> 0,
                              fin |-> TRUE]]
          /\ Return(t, NoErr)
    /\ UNCHANGED <<player, renderer, playback, handles, interner, fn, tgt, arg, key, name, frame>>

\* func (d *AudioDriver) Close() error
CallAudioDriverClose(t, d) ==
    /\ driver[d].made
    /\ Call(t, "AudioDriver_Close_lock", "AudioDriver.Close", d)
    /\ UNCHANGED <<outputs, handles, heap, interner, key, fault>>

\* d.mu.Lock(); if d.closed.Load() { return nil }; d.closed.Store(true)
AudioDriver_Close_lock(t) ==
    /\ At(t, "AudioDriver_Close_lock")
    /\ driver[tgt[t]].mu = 0
    /\ IF driver[tgt[t]].closed
       THEN Return(t, NoErr) /\ UNCHANGED driver
       ELSE /\ driver' = [driver EXCEPT ![tgt[t]].mu = t, ![tgt[t]].closed = TRUE]
            /\ Goto(t, "AudioDriver_Close_delete")
    /\ UNCHANGED <<player, renderer, playback, handles, heap, interner, locals, fault>>

\* if d.ptr != nil { C.delete_fluid_audio_driver(d.ptr); d.ptr = nil };
\* d.settings = nil; d.synth = nil; runtime.SetFinalizer(d, nil); return nil
\* (and the deferred d.mu.Unlock())
AudioDriver_Close_delete(t) ==
    /\ At(t, "AudioDriver_Close_delete")
    /\ LET d == tgt[t] IN
       /\ IF driver[d].ptr # NULL
          THEN heap' = [heap EXCEPT ![<<"driver", driver[d].ptr>>] = Freed(@)]
          ELSE UNCHANGED heap
       /\ driver' = [driver EXCEPT ![d].ptr = NULL, ![d].settings = NULL,
                                   ![d].synth = NULL, ![d].fin = FALSE, ![d].mu = 0]
    /\ Return(t, NoErr)
    /\ UNCHANGED <<player, renderer, playback, handles, interner, locals, fault>>

\* func (d *AudioDriver) validate() error, on the fields as they are in this state
AudioDriver_validate(d) ==
    IF driver[d].closed THEN Err("AudioDriver is closed")
    ELSE IF driver[d].ptr = NULL THEN Err("AudioDriver pointer is nil")
    ELSE NoErr

\* ------------------------------------------------------------------ FileRenderer
\* func NewFileRenderer(synth *Synth) (*FileRenderer, error)
\* if synth == nil { return error }; if synth.closed.Load() { return error }
NewFileRenderer_closed(t, y) ==
    /\ Free(t)
    /\ y # NULL => synth[y].made
    /\ Locals(t, "NewFileRenderer", y)
    /\ IF y = NULL THEN Return(t, Err("synth cannot be nil"))
       ELSE IF synth[y].closed THEN Return(t, Err("synth is closed"))
       ELSE Enter(t, "NewFileRenderer_ptr")
    /\ UNCHANGED <<outputs, handles, heap, interner, key, fault>>

\* if synth.ptr == nil { return nil, error }
NewFileRenderer_ptr(t) ==
    /\ At(t, "NewFileRenderer_ptr")
    /\ IF synth[tgt[t]].ptr = NULL
       THEN Return(t, Err("synth pointer is nil"))
       ELSE Goto(t, "NewFileRenderer_new")
    /\ UNCHANGED <<outputs, handles, heap, interner, locals, fault>>

\* ptr := C.new_fluid_file_renderer(synth.ptr); if ptr == nil { return nil, error };
\* r := &FileRenderer{ptr: ptr, synth: synth}; runtime.SetFinalizer(r, ...); return r, nil
NewFileRenderer_new(t) ==
    /\ At(t, "NewFileRenderer_new")
    /\ FaultAfter(heap[<<"synth", tgt[t]>>] # "live")
    /\ \/ /\ Return(t, Err("failed to create file renderer"))
          /\ UNCHANGED <<heap, obj, renderer>>
       \/ /\ Unused("renderer", RendererIds) # {}
          /\ LET r == Lowest(Unused("renderer", RendererIds)) IN
             /\ heap' = [heap EXCEPT ![<<"renderer", r>>] = "live"]
             /\ obj' = [obj EXCEPT ![t] = r]
             /\ renderer' = [renderer EXCEPT ![r] =
                               [made |-> TRUE, ptr |-> r, synth |-> tgt[t],
                                closed |-> FALSE, mu |-> 0, fin |-> TRUE]]
          /\ Return(t, NoErr)
    /\ UNCHANGED <<player, driver, playback, handles, interner, fn, tgt, arg, key, name, frame>>

\* func (r *FileRenderer) Close() error
CallFileRendererClose(t, r) ==
    /\ renderer[r].made
    /\ Call(t, "FileRenderer_Close_lock", "FileRenderer.Close", r)
    /\ UNCHANGED <<outputs, handles, heap, interner, key, fault>>

\* r.mu.Lock(); if r.closed.Load() { return nil }; r.closed.Store(true)
FileRenderer_Close_lock(t) ==
    /\ At(t, "FileRenderer_Close_lock")
    /\ renderer[tgt[t]].mu = 0
    /\ IF renderer[tgt[t]].closed
       THEN Return(t, NoErr) /\ UNCHANGED renderer
       ELSE /\ renderer' = [renderer EXCEPT ![tgt[t]].mu = t, ![tgt[t]].closed = TRUE]
            /\ Goto(t, "FileRenderer_Close_delete")
    /\ UNCHANGED <<player, driver, playback, handles, heap, interner, locals, fault>>

\* if r.ptr != nil { C.delete_fluid_file_renderer(r.ptr); r.ptr = nil };
\* r.synth = nil; runtime.SetFinalizer(r, nil); return nil
\* (and the deferred r.mu.Unlock())
FileRenderer_Close_delete(t) ==
    /\ At(t, "FileRenderer_Close_delete")
    /\ LET r == tgt[t] IN
       /\ IF renderer[r].ptr # NULL
          THEN /\ heap' = [heap EXCEPT ![<<"renderer", renderer[r].ptr>>] = Freed(@)]
               /\ FaultAfter(InCall("ProcessBlock_ret", r) # {})
          ELSE UNCHANGED <<heap, fault>>
       /\ renderer' = [renderer EXCEPT ![r].ptr = NULL, ![r].synth = NULL,
                                       ![r].fin = FALSE, ![r].mu = 0]
    /\ Return(t, NoErr)
    /\ UNCHANGED <<player, driver, playback, handles, interner, locals>>

\* func (r *FileRenderer) validate() error, on the fields as they are in this state
FileRenderer_validate(r) ==
    IF renderer[r].closed THEN Err("FileRenderer is closed")
    ELSE IF renderer[r].ptr = NULL THEN Err("FileRenderer pointer is nil")
    ELSE NoErr

\* func (r *FileRenderer) ProcessBlock() (bool, error)
\* validate(): if r.closed.Load() { return false, error }
ProcessBlock_closed(t, r) ==
    /\ Free(t)
    /\ renderer[r].made
    /\ Locals(t, "FileRenderer.ProcessBlock", r)
    /\ IF renderer[r].closed
       THEN Return(t, Err("FileRenderer is closed"))
       ELSE Enter(t, "ProcessBlock_ptr")
    /\ UNCHANGED <<outputs, handles, heap, interner, key, fault>>

\* validate(): if r.ptr == nil { return false, error }
ProcessBlock_ptr(t) ==
    /\ At(t, "ProcessBlock_ptr")
    /\ IF renderer[tgt[t]].ptr = NULL
       THEN Return(t, Err("FileRenderer pointer is nil"))
       ELSE Goto(t, "ProcessBlock_call")
    /\ UNCHANGED <<outputs, handles, heap, interner, locals, fault>>

\* C.fluid_file_renderer_process_block(r.ptr) is entered
ProcessBlock_call(t) ==
    /\ At(t, "ProcessBlock_call")
    /\ FaultAfter(heap[<<"renderer", tgt[t]>>] # "live")
    /\ Goto(t, "ProcessBlock_ret")
    /\ UNCHANGED <<outputs, handles, heap, interner, locals>>

\* A faulty ProcessBlock: every status but FLUID_FAILED counts as more blocks.
ProcessBlock_ret_NotFailed(t) ==
    /\ At(t, "ProcessBlock_ret")
    /\ \E status \in Statuses :
         /\ frame' = [frame EXCEPT ![t].status = status]
         /\ Return(t, Value(IF status # FLUID_FAILED THEN 1 ELSE 0))
    /\ UNCHANGED <<outputs, handles, heap, interner, fn, tgt, arg, obj, key, name, fault>>

\* return C.fluid_file_renderer_process_block(r.ptr) == C.FLUID_OK, nil
ProcessBlock_ret(t) ==
    /\ At(t, "ProcessBlock_ret")
    /\ \E status \in Statuses :
         /\ frame' = [frame EXCEPT ![t].status = status]
         /\ Return(t, Value(IF status = FLUID_OK THEN 1 ELSE 0))
    /\ UNCHANGED <<outputs, handles, heap, interner, fn, tgt, arg, obj, key, name, fault>>

\* ------------------------------------------------------------------ specification
\* the steps of goroutine t in each function of the package
SettingsSteps(t) ==
    \/ NewSettings_new(t)
    \/ NewSettings_ref(t)
    \/ \E s \in SettingsIds : CallSettingsClose(t, s)
    \/ Settings_Close_lock(t)
    \/ Settings_Close_ref(t)
    \/ Settings_Close_delete(t)
    \/ Settings_Close_global(t)
    \/ Settings_Close_cleanup(t)
    \/ \E s \in SettingsIds, k \in Keys : SetInt_closed(t, s, k)
    \/ SetInt_ptr(t)
    \/ SetInt_cname(t)
    \/ SetInt_call(t)
    \/ SetInt_ret(t)

SynthSteps(t) ==
    \/ \E s \in SettingsIds \cup {NULL} : NewSynth_closed(t, s)
    \/ NewSynth_ptr(t)
    \/ NewSynth_new(t)
    \/ NewSynth_incRef(t)
    \/ \E y \in SynthIds : CallSynthClose(t, y)
    \/ Synth_Close_lock(t)
    \/ Synth_Close_delete(t)
    \/ Synth_Close_decRef(t)
    \/ \E y \in SynthIds : NoteOn_closed(t, y)
    \/ NoteOn_ptr(t)
    \/ NoteOn_call(t)
    \/ NoteOn_ret(t)

CloseSteps(t) ==
    \/ \E s \in SettingsIds : CallSettingsClose(t, s)
    \/ Settings_Close_lock(t)
    \/ Settings_Close_ref(t)
    \/ Settings_Close_delete(t)
    \/ Settings_Close_global(t)
    \/ Settings_Close_cleanup(t)
    \/ \E y \in SynthIds : CallSynthClose(t, y)
    \/ Synth_Close_lock(t)
    \/ Synth_Close_delete(t)
    \/ Synth_Close_decRef(t)
    \/ \E p \in PlayerIds : CallPlayerClose(t, p)
    \/ Player_Close_lock(t)
    \/ Player_Close_delete(t)
    \/ \E d \in DriverIds : CallAudioDriverClose(t, d)
    \/ AudioDriver_Close_lock(t)
    \/ AudioDriver_Close_delete(t)
    \/ \E r \in RendererIds : CallFileRendererClose(t, r)
    \/ FileRenderer_Close_lock(t)
    \/ FileRenderer_Close_delete(t)

OutputSteps(t) ==
    \/ \E y \in SynthIds \cup {NULL} : NewPlayer_closed(t, y)
    \/ NewPlayer_ptr(t)
    \/ NewPlayer_new(t)
    \/ \E p \in PlayerIds : CallPlayerClose(t, p)
    \/ Player_Close_lock(t)
    \/ Player_Close_delete(t)
    \/ \E p \in PlayerIds : Join_closed(t, p)
    \/ Join_ptr(t)
    \/ Join_call(t)
    \/ Join_ret(t)
    \/ \E s \in SettingsIds \cup {NULL}, y \in SynthIds \cup {NULL} :
           NewAudioDriver_closed(t, s, y)
    \/ NewAudioDriver_synth(t)
    \/ NewAudioDriver_ptr(t)
    \/ NewAudioDriver_synthptr(t)
    \/ NewAudioDriver_new(t)
    \/ \E d \in DriverIds : CallAudioDriverClose(t, d)
    \/ AudioDriver_Close_lock(t)
    \/ AudioDriver_Close_delete(t)
    \/ \E y \in SynthIds \cup {NULL} : NewFileRenderer_closed(t, y)
    \/ NewFileRenderer_ptr(t)
    \/ NewFileRenderer_new(t)
    \/ \E r \in RendererIds : CallFileRendererClose(t, r)
    \/ FileRenderer_Close_lock(t)
    \/ FileRenderer_Close_delete(t)
    \/ \E r \in RendererIds : ProcessBlock_closed(t, r)
    \/ ProcessBlock_ptr(t)
    \/ ProcessBlock_call(t)
    \/ ProcessBlock_ret(t)

\* Spec: goroutines create, use and close Settings and Synths concurrently.
Next == \E t \in Threads : SettingsSteps(t) \/ SynthSteps(t)

Spec == Init /\ [][Next]_vars

\* SpecSeq: one goroutine calls the functions of the package one after the
\* other, on the five handle types.
NextSeq == SettingsSteps(1) \/ SynthSteps(1) \/ OutputSteps(1)

SpecSeq == Init /\ [][NextSeq]_vars

\* The five handle types together. The program has created a Settings and a
\* Synth from it (NewSettings and NewSynth have returned); its goroutines now
\* create the output handles, use the handles and close them.
MadeOne ==
    /\ settings = [s \in SettingsIds |->
                     IF s = 1 THEN [made |-> TRUE, ptr |-> 1, closed |-> FALSE,
                                    refCount |-> 1, mu |-> 0, fin |-> TRUE]
                     ELSE NoSettings]
    /\ synth = [y \in SynthIds |->
                  IF y = 1 THEN [made |-> TRUE, ptr |-> 1, settings |-> 1,
                                 closed |-> FALSE, mu |-> 0, fin |-> TRUE, origin |-> 1]
                  ELSE NoSynth]
    /\ player = [p \in PlayerIds |-> NoPlayer]
    /\ driver = [d \in DriverIds |-> NoAudioDriver]
    /\ renderer = [r \in RendererIds |-> NoFileRenderer]
    /\ playback = [p \in PlayerIds |-> C_FLUID_PLAYER_READY]
    /\ heap = [o \in Objs |-> IF o \in {<<"settings", 1>>, <<"synth", 1>>}
                              THEN "live" ELSE "none"]
    /\ settingNames = NilMap
    /\ cstr = [c \in CStrings |-> "none"]
    /\ settingsRefCount = 1
    /\ pc = [t \in Threads |-> "idle"]
    /\ fn = [t \in Threads |-> "-"]
    /\ tgt = [t \in Threads |-> NULL]
    /\ arg = [t \in Threads |-> NULL]
    /\ obj = [t \in Threads |-> NULL]
    /\ key = [t \in Threads |-> NULL]
    /\ name = [t \in Threads |-> NULL]
    /\ ret = [t \in Threads |-> NoRet]
    /\ fault = "none"

InitOut == MadeOne /\ frame = [t \in Threads |-> NoFrame]

\* SpecOut: goroutines create the three output handles and close handles of
\* the five types concurrently.
NextOut ==
    \E t \in Threads :
        \/ CloseSteps(t)
        \/ \E y \in SynthIds \cup {NULL} : NewPlayer_closed(t, y)
        \/ NewPlayer_ptr(t)
        \/ NewPlayer_new(t)
        \/ \E s \in SettingsIds \cup {NULL}, y \in SynthIds \cup {NULL} :
               NewAudioDriver_closed(t, s, y)
        \/ NewAudioDriver_synth(t)
        \/ NewAudioDriver_ptr(t)
        \/ NewAudioDriver_synthptr(t)
        \/ NewAudioDriver_new(t)
        \/ \E y \in SynthIds \cup {NULL} : NewFileRenderer_closed(t, y)
        \/ NewFileRenderer_ptr(t)
        \/ NewFileRenderer_new(t)

SpecOut == InitOut /\ [][NextOut]_vars

\* ------------------------------------------------------------------ properties
\* the Synths created from Settings s, and those of them that are open
Created(s) == {y \in SynthIds : synth[y].made /\ synth[y].origin = s}
OpenSynths(s) == {y \in Created(s) : ~synth[y].closed}
\* Close has returned on every Synth created from s
AllClosed(s) == \A y \in Created(s) : synth[y].closed /\ synth[y].mu = 0
\* goroutines inside NewSynth(s)
InNewSynth(s) == {t \in Threads : fn[t] = "NewSynth" /\ tgt[t] = s /\ ~Free(t)}
\* goroutine t returns from its call in this step
Returns(t) == pc[t] # "done" /\ pc'[t] = "done"

\* C1: Settings.Close that reads a dependency counter greater than 0 returns
\* the StillReferenced error carrying that count, leaves the foreign settings
\* object allocated and the Settings open, and changes no field but the lock;
\* in the state it returns in, validate() passes on the Settings and on every
\* open Synth created from it, and their foreign objects are allocated, so
\* their operations are forwarded.
C1_StillReferenced ==
    [][\A t \in Threads :
         (pc[t] = "Settings_Close_ref" /\ settings[tgt[t]].refCount > 0
            /\ pc'[t] # pc[t]) =>
         LET s == tgt[t] IN
         /\ pc'[t] = "done"
         /\ ret'[t] = StillReferenced(settings[s].refCount)
         /\ settings'[s] = [settings[s] EXCEPT !.mu = 0]
         /\ UNCHANGED <<synth, heap, interner>>
         /\ heap'[<<"settings", s>>] = "live"
         /\ Settings_validate(s)' = NoErr
         /\ \A y \in OpenSynths(s)' :
              Synth_validate(y)' = NoErr /\ heap'[<<"synth", y>>] = "live"]_vars

\* C1's case: a Settings.Close has returned StillReferenced with the count of
\* the open Synths, all NSynths of them, and the Settings is open and allocated.
C1_Witness ==
    \E t \in Threads :
        /\ pc[t] = "done" /\ fn[t] = "Settings.Close"
        /\ ret[t] = StillReferenced(NSynths)
        /\ Cardinality(OpenSynths(tgt[t])) = NSynths
        /\ ~settings[tgt[t]].closed
        /\ heap[<<"settings", tgt[t]>>] = "live"

\* C2: no state has a closed Settings, or a freed foreign settings object,
\* together with an open Synth created from it.
\* NewSynth reads settings.closed and settings.ptr without the Settings' lock
\* and registers the dependency (incRef) only after new_fluid_synth returned,
\* so a Settings.Close that runs in between reads a counter of 0 and succeeds.
C2_NoOpenSynthOfClosedSettings ==
    \A s \in SettingsIds :
        (settings[s].closed \/ heap[<<"settings", s>>] # "live") => OpenSynths(s) = {}

\* C3: once Synths have been created from a Settings and Close has returned on
\* all of them, in whatever order, the dependency counter is 0; a
\* Settings.Close that runs then passes the counter test, frees the foreign
\* settings object exactly once and returns nil.
C3_CounterBackToZero ==
    /\ [](\A s \in SettingsIds :
            (Created(s) # {} /\ AllClosed(s)) => settings[s].refCount = 0)
    /\ [][\A t \in Threads :
            (fn[t] = "Settings.Close" /\ Created(tgt[t]) # {} /\ AllClosed(tgt[t])
               /\ pc'[t] # pc[t]) =>
            /\ pc[t] = "Settings_Close_ref" => pc'[t] = "Settings_Close_delete"
            /\ pc[t] = "Settings_Close_delete" =>
                 /\ heap[<<"settings", tgt[t]>>] = "live"
                 /\ heap'[<<"settings", tgt[t]>>] = "freed"
            /\ Returns(t) => ret'[t] = NoErr]_vars

\* C3's case: NSynths Synths were created from one Settings, all are closed,
\* and a Settings.Close has then freed the foreign settings object.
C3_Witness ==
    \E t \in Threads :
        /\ pc[t] = "done" /\ fn[t] = "Settings.Close" /\ ret[t] = NoErr
        /\ Cardinality(Created(tgt[t])) = NSynths
        /\ AllClosed(tgt[t])
        /\ settings[tgt[t]].refCount = 0
        /\ heap[<<"settings", tgt[t]>>] = "freed"

\* C4: when no goroutine is inside NewSynth on a Settings and no Synth created
\* from it has been closed, the dependency counter equals the number of
\* NewSynth calls that returned a Synth.
C4_NoLostIncrement ==
    \A s \in SettingsIds :
        (settings[s].made /\ InNewSynth(s) = {} /\ OpenSynths(s) = Created(s)) =>
            settings[s].refCount = Cardinality(Created(s))

\* C4's case: every goroutine has returned from a successful NewSynth on the
\* same Settings, each with a Synth of its own.
C4_Witness ==
    /\ \A t \in Threads :
         pc[t] = "done" /\ fn[t] = "NewSynth" /\ ret[t] = NoErr /\ tgt[t] = 1
    /\ \A t, u \in Threads : t # u => obj[t] # obj[u]
    /\ OpenSynths(1) = Created(1)
    /\ settings[1].refCount = NThreads

\* goroutine t is at the start of Close on a handle whose closed flag is set
ClosingClosed(t) ==
    \/ pc[t] = "Settings_Close_lock" /\ settings[tgt[t]].closed
    \/ pc[t] = "Synth_Close_lock" /\ synth[tgt[t]].closed
    \/ pc[t] = "Player_Close_lock" /\ player[tgt[t]].closed
    \/ pc[t] = "AudioDriver_Close_lock" /\ driver[tgt[t]].closed
    \/ pc[t] = "FileRenderer_Close_lock" /\ renderer[tgt[t]].closed

\* C5: for each of the five handle types, Close on a handle that is already
\* closed returns nil and changes nothing: no field of any handle, no foreign
\* object (no second free), no dependency counter, and neither the global
\* count of open Settings nor the interner.
C5_CloseIdempotent ==
    [][\A t \in Threads :
         (ClosingClosed(t) /\ pc'[t] # pc[t]) =>
             /\ pc'[t] = "done"
             /\ ret'[t] = NoErr
             /\ UNCHANGED <<handles, outputs, heap, interner, fault>>]_vars

\* C5's case: two Close calls on the same FileRenderer have both returned nil
\* (the later one found the handle closed) and its foreign object was freed once.
C5_Witness ==
    \E r \in RendererIds :
        /\ \A t \in Threads :
             pc[t] = "done" /\ fn[t] = "FileRenderer.Close" /\ tgt[t] = r
             /\ ret[t] = NoErr
        /\ renderer[r].closed
        /\ heap[<<"renderer", r>>] = "freed"

\* the foreign object of a handle on which Close has returned
ClosedObjs ==
    {<<"settings", s>> : s \in {i \in SettingsIds : settings[i].closed /\ settings[i].mu = 0}}
    \cup {<<"synth", y>> : y \in {i \in SynthIds : synth[i].closed /\ synth[i].mu = 0}}
    \cup {<<"player", p>> : p \in {i \in PlayerIds : player[i].closed /\ player[i].mu = 0}}
    \cup {<<"driver", d>> : d \in {i \in DriverIds : driver[i].closed /\ driver[i].mu = 0}}
    \cup {<<"renderer", r>> : r \in {i \in RendererIds : renderer[i].closed /\ renderer[i].mu = 0}}

\* C6: with Close calls running concurrently on the same handle, from other
\* goroutines or from the finalizer, the foreign object is freed exactly once:
\* no object is ever freed twice, the object of a handle on which Close has
\* returned is freed, and the dependency counter of a Settings equals the
\* number of Synths that still hold it (each Synth's Close decrements it once).
C6_FreedExactlyOnce ==
    /\ \A o \in Objs : heap[o] # "freed twice"
    /\ \A o \in ClosedObjs : heap[o] = "freed"
    /\ \A s \in SettingsIds :
         settings[s].refCount =
             Cardinality({y \in SynthIds : synth[y].made /\ synth[y].settings = s})
    /\ \A y \in SynthIds : (synth[y].closed /\ synth[y].mu = 0) => synth[y].settings = NULL

\* C6's case: one goroutine is inside Close on a Synth, has freed the foreign
\* object and not yet decremented the counter, while another goroutine's Close
\* on the same Synth waits for the lock.
C6_Witness ==
    \E t, u \in Threads :
        /\ t # u /\ tgt[t] = tgt[u]
        /\ pc[t] = "Synth_Close_decRef" /\ pc[u] = "Synth_Close_lock"
        /\ heap[<<"synth", tgt[t]>>] = "freed"

\* goroutine t, between two calls, enters a function in this step
Starts(t) ==
    /\ Free(t)
    /\ <<pc[t], fn[t], tgt[t], arg[t], obj[t], key[t], name[t], ret[t]>>' #
       <<pc[t], fn[t], tgt[t], arg[t], obj[t], key[t], name[t], ret[t]>>

\* C7: NewSynth called with a nil Settings, or with a Settings whose closed
\* flag is set, returns at once with the invalid-argument error ("settings
\* cannot be nil" / "settings is closed"); it has no foreign pointer and no
\* Synth, and it changes no handle, no foreign object and no counter.
C7_NewSynthRejected ==
    [][\A t \in Threads :
         (/\ Starts(t)
          /\ fn'[t] = "NewSynth"
          /\ (tgt'[t] = NULL \/ settings[tgt'[t]].closed)) =>
             /\ pc'[t] = "done"
             /\ ret'[t] = IF tgt'[t] = NULL THEN Err("settings cannot be nil")
                          ELSE Err("settings is closed")
             /\ obj'[t] = NULL
             /\ UNCHANGED <<handles, outputs, heap, interner, fault>>]_vars

\* C7's case: NewSynth on a closed Settings has returned the error; the
\* Settings' counter is 0 and no Synth exists.
C7_Witness ==
    \E t \in Threads :
        /\ pc[t] = "done" /\ fn[t] = "NewSynth" /\ tgt[t] # NULL
        /\ ret[t] = Err("settings is closed")
        /\ settings[tgt[t]].closed
        /\ settings[tgt[t]].refCount = 0
        /\ \A y \in SynthIds : heap[<<"synth", y>>] = "none"

\* the operations of the handles other than Close
Operations ==
    {"Settings.SetInt", "Synth.NoteOn", "Player.Join", "FileRenderer.ProcessBlock"}

\* Close has returned on the handle h that operation f is called on
CloseReturned(f, h) ==
    CASE f = "Settings.SetInt" -> settings[h].closed /\ settings[h].mu = 0
      [] f = "Synth.NoteOn" -> synth[h].closed /\ synth[h].mu = 0
      [] f = "Player.Join" -> player[h].closed /\ player[h].mu = 0
      [] f = "FileRenderer.ProcessBlock" -> renderer[h].closed /\ renderer[h].mu = 0

\* the error validate() gives operation f on a closed handle
ClosedError(f) ==
    CASE f = "Settings.SetInt" -> Err("Settings is closed")
      [] f = "Synth.NoteOn" -> Err("Synth is closed")
      [] f = "Player.Join" -> Err("player is closed")
      [] f = "FileRenderer.ProcessBlock" -> Err("FileRenderer is closed")

\* C8: an operation other than Close, called on a handle on which Close has
\* returned, returns at once with the closed error of its handle type: it
\* reaches no foreign call, gets no C string from the interner, and changes no
\* handle, no foreign object and nothing of the interner.
C8_ClosedHandleRejects ==
    [][\A t \in Threads :
         (/\ Starts(t)
          /\ fn'[t] \in Operations
          /\ CloseReturned(fn'[t], tgt'[t])) =>
             /\ pc'[t] = "done"
             /\ ret'[t] = ClosedError(fn'[t])
             /\ name'[t] = NULL
             /\ UNCHANGED <<handles, outputs, heap, interner, fault>>]_vars

\* C8's case: SetInt on a closed Settings has returned the closed error, and
\* the interner's map is still nil.
C8_Witness ==
    \E t \in Threads :
        /\ pc[t] = "done" /\ fn[t] = "Settings.SetInt"
        /\ ret[t] = Err("Settings is closed")
        /\ heap[<<"settings", tgt[t]>>] = "freed"
        /\ settingNames = NilMap

\* C9: a foreign call of an operation is never entered on, and never still
\* running on, a foreign object that Close has freed.
\* validate() reads closed and ptr without the handle's lock, and Close does
\* not wait for operations, so Close can free the object between validate()
\* and the foreign call, or while the foreign call runs.
C9_NoCallOnFreedObject ==
    \A t \in Threads :
        /\ pc[t] = "NoteOn_ret" => heap[<<"synth", tgt[t]>>] = "live"
        /\ pc[t] = "SetInt_ret" => heap[<<"settings", tgt[t]>>] = "live"

\* goroutines inside Close on Settings s
InSettingsClose(s) == {t \in Threads : fn[t] = "Settings.Close" /\ tgt[t] = s /\ ~Free(t)}

\* SpecDown: goroutines create Settings and Synths and close them concurrently
\* and in any order, but Close is called on a Settings only when no NewSynth
\* on it is running, and NewSynth only when no Close of its Settings is.
NextDown ==
    \E t \in Threads :
        \/ NewSettings_new(t)
        \/ NewSettings_ref(t)
        \/ \E s \in SettingsIds : InNewSynth(s) = {} /\ CallSettingsClose(t, s)
        \/ Settings_Close_lock(t)
        \/ Settings_Close_ref(t)
        \/ Settings_Close_delete(t)
        \/ Settings_Close_global(t)
        \/ Settings_Close_cleanup(t)
        \/ \E s \in SettingsIds : InSettingsClose(s) = {} /\ NewSynth_closed(t, s)
        \/ NewSynth_ptr(t)
        \/ NewSynth_new(t)
        \/ NewSynth_incRef(t)
        \/ \E y \in SynthIds : CallSynthClose(t, y)
        \/ Synth_Close_lock(t)
        \/ Synth_Close_delete(t)
        \/ Synth_Close_decRef(t)

SpecDown == Init /\ [][NextDown]_vars

\* C10: in whatever order, and however interleaved, Close is called on a
\* Settings and on the Synths created from it, the foreign settings object is
\* freed only when the foreign objects of all those Synths have been freed;
\* and a Settings.Close that returns when Close has returned on every Synth
\* created from the Settings returns nil with the Settings closed and its
\* foreign object freed, whether or not an earlier Close returned
\* StillReferenced.
C10_ReverseOrder ==
    /\ [](\A s \in SettingsIds :
            heap[<<"settings", s>>] \in {"freed", "freed twice"} =>
                \A y \in Created(s) : heap[<<"synth", y>>] = "freed")
    /\ [][\A t \in Threads :
            (fn[t] = "Settings.Close" /\ Returns(t) /\ AllClosed(tgt[t])) =>
                /\ ret'[t] = NoErr
                /\ settings'[tgt[t]].closed
                /\ heap'[<<"settings", tgt[t]>>] = "freed"]_vars

\* C10's case: Close on a Settings has returned StillReferenced to one
\* goroutine while all NSynths Synths were open; the Synths have been closed
\* since, and a later Close on the same Settings has returned nil to another
\* goroutine, with the foreign settings object freed after the Synths'.
C10_Witness ==
    \E t, u \in Threads :
        /\ pc[t] = "done" /\ fn[t] = "Settings.Close"
        /\ ret[t] = StillReferenced(NSynths)
        /\ pc[u] = "done" /\ fn[u] = "Settings.Close" /\ tgt[u] = tgt[t]
        /\ ret[u] = NoErr
        /\ Cardinality(Created(tgt[t])) = NSynths
        /\ \A y \in Created(tgt[t]) : heap[<<"synth", y>>] = "freed"
        /\ heap[<<"settings", tgt[t]>>] = "freed"

\* validate() of the handle of foreign object o
Validate(o) ==
    CASE o[1] = "settings" -> Settings_validate(o[2])
      [] o[1] = "synth" -> Synth_validate(o[2])
      [] o[1] = "player" -> Player_validate(o[2])
      [] o[1] = "driver" -> AudioDriver_validate(o[2])
      [] o[1] = "renderer" -> FileRenderer_validate(o[2])

\* C11: Synth.Close returns nil whenever it returns, whether or not a Player,
\* AudioDriver or FileRenderer created from the Synth is open, and it changes
\* no field of those handles; every open Player, AudioDriver and FileRenderer
\* passes validate() and has its foreign object allocated, also when the
\* foreign synth it was created from is freed, and an operation called on it
\* that has passed validate() goes on to its foreign call.
C11_SynthCloseIgnoresDependents ==
    /\ [](\A y \in SynthIds : \A o \in Dependents(y) :
            Validate(o) = NoErr /\ heap[o] = "live")
    /\ [][\A t \in Threads :
            /\ (fn[t] = "Synth.Close" /\ ~Free(t) /\ pc'[t] # pc[t]) =>
                 /\ UNCHANGED outputs
                 /\ Returns(t) => ret'[t] = NoErr
            /\ (pc[t] = "Join_ptr" /\ pc'[t] # pc[t]) => pc'[t] = "Join_call"
            /\ (pc[t] = "ProcessBlock_ptr" /\ pc'[t] # pc[t]) =>
                 pc'[t] = "ProcessBlock_call"]_vars

\* C11's case: the Synth is closed and its foreign object freed while a
\* Player, an AudioDriver and a FileRenderer created from it are open, and
\* Join on that Player is inside its foreign call.
C11_Witness ==
    \E t \in Threads, y \in SynthIds :
        /\ synth[y].closed /\ heap[<<"synth", y>>] = "freed"
        /\ {o[1] : o \in Dependents(y)} = {"player", "driver", "renderer"}
        /\ pc[t] = "Join_ret" /\ <<"player", tgt[t]>> \in Dependents(y)

\* the constructors and Close methods of Player, AudioDriver and FileRenderer
OutputFunctions ==
    {"NewPlayer", "Player.Close", "NewAudioDriver", "AudioDriver.Close",
     "NewFileRenderer", "FileRenderer.Close"}

\* goroutine t takes this step
Moves(t) == pc'[t] # pc[t] \/ Starts(t)

\* C12: no step of a constructor or Close of a Player, AudioDriver or
\* FileRenderer changes the dependency counter of a Settings (or any other
\* field of one); a Settings.Close that reads the counter when Close has
\* returned on every Synth created from the Settings goes on to free the
\* foreign settings object, whether or not an AudioDriver created from the
\* Settings is open.
C12_OutputsNotCounted ==
    [][\A t \in Threads :
         /\ (Moves(t) /\ fn'[t] \in OutputFunctions) => UNCHANGED settings
         /\ (pc[t] = "Settings_Close_ref" /\ AllClosed(tgt[t]) /\ pc'[t] # pc[t]) =>
              pc'[t] = "Settings_Close_delete"
         /\ (pc[t] = "Settings_Close_delete" /\ pc'[t] # pc[t]) =>
              heap'[<<"settings", tgt[t]>>] = "freed"]_vars

\* C12's case: a Settings.Close has returned nil and freed the foreign
\* settings object while an AudioDriver created from that Settings is open.
C12_Witness ==
    \E t \in Threads, d \in DriverIds :
        /\ pc[t] = "done" /\ fn[t] = "Settings.Close" /\ ret[t] = NoErr
        /\ heap[<<"settings", tgt[t]>>] = "freed"
        /\ driver[d].made /\ ~driver[d].closed /\ driver[d].settings = tgt[t]
        /\ heap[<<"driver", d>>] = "live"

\* C13: in every state, for every Settings and every Synth, the foreign
\* pointer is non-nil exactly when the closed flag is false.
\* Close stores closed = true first and clears ptr after the foreign delete;
\* validate() and the constructors read both fields without the lock, so the
\* state in between is one another goroutine can run in.
C13_PtrIffOpen ==
    /\ \A s \in SettingsIds :
         settings[s].made => ((settings[s].ptr # NULL) <=> ~settings[s].closed)
    /\ \A y \in SynthIds :
         synth[y].made => ((synth[y].ptr # NULL) <=> ~synth[y].closed)

\* C13 as the code has it: a Settings or Synth whose closed flag is false has
\* a non-nil foreign pointer in every state, and whenever no Close holds the
\* handle's lock the pointer is non-nil exactly when the closed flag is false.
\* While Close holds the lock, closed = true with a non-nil pointer occurs.
C13_PtrIffOpenUnlocked ==
    /\ \A s \in SettingsIds :
         settings[s].made =>
             /\ ~settings[s].closed => settings[s].ptr # NULL
             /\ settings[s].mu = 0 => ((settings[s].ptr # NULL) <=> ~settings[s].closed)
    /\ \A y \in SynthIds :
         synth[y].made =>
             /\ ~synth[y].closed => synth[y].ptr # NULL
             /\ synth[y].mu = 0 => ((synth[y].ptr # NULL) <=> ~synth[y].closed)

\* C13's case: an open Settings with its pointer set, a Synth on which Close
\* has returned, closed with a nil pointer, and a second Synth inside Close
\* with closed = true and its pointer still set.
C13_Witness ==
    \E s \in SettingsIds, y, z \in SynthIds :
        /\ settings[s].made /\ ~settings[s].closed /\ settings[s].ptr # NULL
        /\ synth[y].closed /\ synth[y].mu = 0 /\ synth[y].ptr = NULL
        /\ synth[z].closed /\ synth[z].mu # 0 /\ synth[z].ptr # NULL

\* the Close methods
CloseFunctions ==
    {"Settings.Close", "Synth.Close", "Player.Close", "AudioDriver.Close",
     "FileRenderer.Close"}

\* a step of goroutine t inside a call it has entered
Running(t) == ~Free(t) /\ (SettingsSteps(t) \/ SynthSteps(t))

\* SpecLive: Spec with the scheduling the Go runtime gives. A goroutine inside
\* a call that can take a step infinitely often takes it: runnable goroutines
\* are scheduled, and a goroutine waiting in sync.Mutex.Lock gets the lock
\* although others keep locking and unlocking it (the mutex's starvation mode
\* hands the lock to the waiter). Nothing obliges a goroutine to start a call.
SpecLive == Init /\ [][Next]_vars /\ \A t \in Threads : SF_vars(Running(t))

WriteSteps(t) ==
    \/ WriteS16_ptr(t)
    \/ WriteS16_call(t)
    \/ WriteS16_ret(t)
    \/ WriteFloat_ptr(t)
    \/ WriteFloat_call(t)
    \/ WriteFloat_ret(t)

\* SpecWrite: the program has created a Settings and a Synth; one goroutine
\* is about to call WriteS16 or WriteFloat with buffers of any length up to
\* MaxLen and any int as a stride. It makes the call, and closes the Synth.
InitWrite ==
    /\ MadeOne
    /\ \E l, r \in Lens, ls, rs \in Ints :
           frame = [t \in Threads |->
                      IF t = 1
                      THEN [NoFrame EXCEPT !.left = l, !.right = r,
                                           !.lstride = ls, !.rstride = rs]
                      ELSE NoFrame]

NextWrite ==
    \/ \E y \in SynthIds :
           WriteS16_closed(1, y, frame[1].left, frame[1].right,
                           frame[1].lstride, frame[1].rstride)
    \/ \E y \in SynthIds :
           WriteFloat_closed(1, y, frame[1].left, frame[1].right,
                             frame[1].lstride, frame[1].rstride)
    \/ WriteSteps(1)
    \/ \E y \in SynthIds : CallSynthClose(1, y)
    \/ Synth_Close_lock(1)
    \/ Synth_Close_delete(1)
    \/ Synth_Close_decRef(1)

SpecWrite == InitWrite /\ [][NextWrite]_vars

\* SpecRT: the program has created a Settings and a Synth; its goroutines write
\* samples, and close the Synth and the Settings, concurrently.
RTLens == {0, 1}
RTStrides == {1}

NextRT ==
    \E t \in Threads :
        \/ \E y \in SynthIds, l, r \in RTLens, ls, rs \in RTStrides :
               WriteS16_closed(t, y, l, r, ls, rs)
        \/ \E y \in SynthIds, l, r \in RTLens, ls, rs \in RTStrides :
               WriteFloat_closed(t, y, l, r, ls, rs)
        \/ WriteSteps(t)
        \/ \E s \in SettingsIds : CallSettingsClose(t, s)
        \/ Settings_Close_lock(t)
        \/ Settings_Close_ref(t)
        \/ Settings_Close_delete(t)
        \/ Settings_Close_global(t)
        \/ Settings_Close_cleanup(t)
        \/ \E y \in SynthIds : CallSynthClose(t, y)
        \/ Synth_Close_lock(t)
        \/ Synth_Close_delete(t)
        \/ Synth_Close_decRef(t)

SpecRT == InitOut /\ [][NextRT]_vars

WriteFunctions == {"Synth.WriteS16", "Synth.WriteFloat"}

\* goroutine t is inside WriteS16 or WriteFloat
InWrite(t) == fn[t] \in WriteFunctions /\ pc[t] \notin {"idle", "done", "panicked"}

\* the locks goroutine t holds
Held(t) ==
    {<<"settings", s>> : s \in {i \in SettingsIds : settings[i].mu = t}}
    \cup {<<"synth", y>> : y \in {i \in SynthIds : synth[i].mu = t}}

\* C15: WriteS16 and WriteFloat acquire no lock, and no Close in progress blocks
\* them: a goroutine inside either function holds no lock and its next step is
\* enabled whatever locks the other goroutines hold, and a goroutine between
\* two calls can enter either function on any Synth.
C15_WriteNeverBlocked ==
    \A t \in Threads :
        /\ InWrite(t) => Held(t) = {} /\ ENABLED WriteSteps(t)
        /\ Free(t) =>
               \A y \in SynthIds :
                   synth[y].made =>
                       /\ ENABLED WriteS16_closed(t, y, 1, 1, 1, 1)
                       /\ ENABLED WriteFloat_closed(t, y, 1, 1, 1, 1)

\* a write call ran to its end while a Close of its Synth, by another goroutine,
\* held the lock of the Synth
C15_Witness ==
    \E t, u \in Threads :
        /\ t # u
        /\ fn[t] \in WriteFunctions
        /\ pc[t] = "done"
        /\ ret[t] = Err("Synth is closed")
        /\ fn[u] = "Synth.Close"
        /\ pc[u] = "Synth_Close_delete"
        /\ synth[tgt[t]].mu = u

\* goroutine t has forwarded a write to the foreign engine
Forwarded(t) ==
    /\ fn[t] \in WriteFunctions
    /\ pc[t] \in {"WriteS16_ret", "WriteFloat_ret"} \/ (pc[t] = "done" /\ ret[t] = NoErr)

\* goroutine t is past the validation of the Synth in a write call, the frame
\* count computed
Computed(t) ==
    /\ fn[t] \in WriteFunctions
    /\ \/ pc[t] \in {"WriteS16_ret", "WriteFloat_ret", "panicked"}
       \/ pc[t] = "done" /\ ret[t] \notin {Err("Synth is closed"), Err("Synth pointer is nil")}

\* ceil(a / b) and the minimum, over the mathematical integers, for b > 0
CeilDiv(a, b) == (a + b - 1) \div b
Min(a, b) == IF a < b THEN a ELSE b

\* C16: with two non-empty buffers and positive strides the frame count passed
\* to the foreign engine is min(ceil(len(left)/lstride), ceil(len(right)/rstride))
\* (8 samples with stride 2 give 4 frames, and so do 8 and 7 samples); with an
\* empty buffer the call fails and nothing is passed.
C16_FrameCount ==
    \A t \in Threads :
        Computed(t) =>
            LET fr == frame[t] IN
            /\ (fr.left > 0 /\ fr.right > 0 /\ fr.lstride > 0 /\ fr.rstride > 0) =>
                   /\ Forwarded(t)
                   /\ fr.sent # <<>>
                   /\ fr.sent[1] = Min(CeilDiv(fr.left, fr.lstride),
                                       CeilDiv(fr.right, fr.rstride))
            /\ (fr.left = 0 \/ fr.right = 0) =>
                   /\ pc[t] = "done"
                   /\ ret[t] = Err("left and right slices must not be empty")
                   /\ fr.sent = <<>>

\* C17: whenever a write is forwarded, the frame count n passed is at least 1
\* and the last sample addressed in each buffer, (n-1)*stride, lies inside it.
C17_WriteInsideBuffers ==
    \A t \in Threads :
        (Forwarded(t) /\ frame[t].sent # <<>>) =>
            LET fr == frame[t]
                n == fr.sent[1]
            IN  /\ n >= 1
                /\ 0 <= (n - 1) * fr.lstride /\ (n - 1) * fr.lstride < fr.left
                /\ 0 <= (n - 1) * fr.rstride /\ (n - 1) * fr.rstride < fr.right

\* C18: WriteS16 and WriteFloat return a result for every input; they never
\* panic.
C18_WriteNeverPanics ==
    \A t \in Threads : fn[t] \in WriteFunctions => pc[t] # "panicked"

\* SpecPlay: the program has created a Settings and a Synth; one goroutine
\* creates a Player, sets its tempo with any int as the mode, reads its status,
\* joins it and closes it.
PlayerSteps(t) ==
    \/ \E y \in SynthIds \cup {NULL} : NewPlayer_closed(t, y)
    \/ NewPlayer_ptr(t)
    \/ NewPlayer_new(t)
    \/ \E p \in PlayerIds, mode \in Ints : SetTempo_closed(t, p, mode)
    \/ SetTempo_ptr(t)
    \/ SetTempo_call(t)
    \/ SetTempo_ret(t)
    \/ \E p \in PlayerIds : GetStatus_closed(t, p)
    \/ GetStatus_ptr(t)
    \/ GetStatus_call(t)
    \/ GetStatus_ret(t)
    \/ \E p \in PlayerIds : Join_closed(t, p)
    \/ Join_ptr(t)
    \/ Join_call(t)
    \/ Join_ret(t)
    \/ \E p \in PlayerIds : CallPlayerClose(t, p)
    \/ Player_Close_lock(t)
    \/ Player_Close_delete(t)

NextPlay == PlayerSteps(1)

SpecPlay == InitOut /\ [][NextPlay]_vars

TempoTypes == {TEMPO_INTERNAL, TEMPO_EXTERNAL_BPM, TEMPO_EXTERNAL_MIDI}

\* goroutine t is past the validation of the Player in a call of function f
\* of the Player, and past the positions before
Validated(t, f, before) ==
    /\ fn[t] = "Player." \o f
    /\ pc[t] \notin {"idle"} \cup before
    /\ ret[t] \notin {Err("player is closed"), Err("player pointer is nil")}

\* C19: on an open Player, SetTempo with a mode outside the three tempo types
\* fails with the invalid-argument error and hands nothing to the foreign
\* engine; with a mode inside it the foreign call is made with that mode.
C19_SetTempoMode ==
    \A t \in Threads :
        Validated(t, "SetTempo", {"SetTempo_ptr", "SetTempo_call"}) =>
            IF frame[t].tempoType \in TempoTypes
            THEN /\ frame[t].sent = <<frame[t].tempoType>>
                 /\ ret[t] \in {NoRet, NoErr, Err("failed to set tempo")}
            ELSE /\ frame[t].sent = <<>>
                 /\ pc[t] = "done"
                 /\ ret[t] = Err("invalid tempo type: %d")

\* SetTempo has rejected the mode one above TEMPO_EXTERNAL_MIDI
C19_Witness ==
    \E t \in Threads :
        /\ fn[t] = "Player.SetTempo"
        /\ pc[t] = "done"
        /\ ret[t] = Err("invalid tempo type: %d")
        /\ frame[t].tempoType = TEMPO_EXTERNAL_MIDI + 1

\* the status codes of the enum and the strings the spec gives for them
StatusNames ==
    {<<C_FLUID_PLAYER_READY, "READY">>, <<C_FLUID_PLAYER_PLAYING, "PLAYING">>,
     <<C_FLUID_PLAYER_STOPPING, "STOPPING">>, <<C_FLUID_PLAYER_DONE, "DONE">>}

\* C20: on an open Player, GetStatus returns READY, PLAYING, STOPPING or DONE
\* with no error exactly when the foreign status code is the ready, playing,
\* stopping or done code, and for every other code an unknown-status error that
\* carries the code.
C20_StatusMapping ==
    \A t \in Threads :
        Validated(t, "GetStatus", {"GetStatus_ptr", "GetStatus_call", "GetStatus_ret"}) =>
            LET code == frame[t].status IN
            /\ \A sn \in StatusNames :
                   (frame[t].result = sn[2] /\ ret[t] = NoErr) <=> code = sn[1]
            /\ code \notin {sn[1] : sn \in StatusNames} =>
                   /\ ret[t].err = "unknown status code: %d"
                   /\ ret[t].n = code

\* GetStatus has read a code above the done code and returned the error with it
C20_Witness ==
    \E t \in Threads :
        /\ fn[t] = "Player.GetStatus"
        /\ pc[t] = "done"
        /\ frame[t].status = C_FLUID_PLAYER_DONE + 1
        /\ ret[t] = UnknownStatus(C_FLUID_PLAYER_DONE + 1)

\* the forwarding operations of the model, each with the message of the error
\* it returns when it takes the foreign status for a failure
Forwards ==
    {<<"Settings.SetInt", "failed to set int setting %s">>,
     <<"Synth.NoteOn", "failed to turn note on: channel=%d, note=%d, velocity=%d">>,
     <<"Player.Join", "failed to join player">>,
     <<"Player.SetTempo", "failed to set tempo">>}

\* C21: a forwarding operation on an open handle reports failure exactly when
\* the foreign status is FLUID_FAILED; 0 and positive statuses are successes.
C21_FailureIffSentinel ==
    \A t \in Threads : \A fw \in Forwards :
        (fn[t] = fw[1] /\ pc[t] = "done" /\ ret[t] \in {NoErr, Err(fw[2])}) =>
            (ret[t] = Err(fw[2]) <=> frame[t].status = FLUID_FAILED)

\* ------------------------------------------------------------------ name interner
\* SpecNames: goroutines create Settings, set values under keys and close the
\* Settings concurrently; there are NNameSettings Settings and NNameKeys keys.
NNameSettings == 2
NNameKeys == 2
NameSettingsIds == 1..NNameSettings
NameKeys == 1..NNameKeys
NameCStrings == 1..(NNameKeys * (NNameSettings + 1))

InitNames ==
    /\ settings = [s \in NameSettingsIds |-> NoSettings]
    /\ synth = [y \in SynthIds |-> NoSynth]
    /\ player = [p \in PlayerIds |-> NoPlayer]
    /\ driver = [d \in DriverIds |-> NoAudioDriver]
    /\ renderer = [r \in RendererIds |-> NoFileRenderer]
    /\ playback = [p \in PlayerIds |-> C_FLUID_PLAYER_READY]
    /\ heap = [o \in Objs \cup ({"settings"} \X NameSettingsIds) |-> "none"]
    /\ settingNames = [isNil |-> TRUE, at |-> [k \in NameKeys |-> NULL]]
    /\ cstr = [c \in NameCStrings |-> "none"]
    /\ settingsRefCount = 0
    /\ pc = [t \in Threads |-> "idle"]
    /\ fn = [t \in Threads |-> "-"]
    /\ tgt = [t \in Threads |-> NULL]
    /\ arg = [t \in Threads |-> NULL]
    /\ obj = [t \in Threads |-> NULL]
    /\ key = [t \in Threads |-> NULL]
    /\ name = [t \in Threads |-> NULL]
    /\ ret = [t \in Threads |-> NoRet]
    /\ frame = [t \in Threads |-> NoFrame]
    /\ fault = "none"

NameSteps(t) ==
    \/ NewSettings_new(t)
    \/ NewSettings_ref(t)
    \/ \E s \in NameSettingsIds : CallSettingsClose(t, s)
    \/ Settings_Close_lock(t)
    \/ Settings_Close_ref(t)
    \/ Settings_Close_delete(t)
    \/ Settings_Close_global(t)
    \/ Settings_Close_cleanup(t)
    \/ \E s \in NameSettingsIds, k \in NameKeys : SetInt_closed(t, s, k)
    \/ SetInt_ptr(t)
    \/ SetInt_cname(t)
    \/ SetInt_call(t)
    \/ SetInt_ret(t)

NextNames == \E t \in Threads : NameSteps(t)

SpecNames == InitNames /\ [][NextNames]_vars

\* the open Settings
OpenSettings == {s \in DOMAIN settings : settings[s].made /\ ~settings[s].closed}

\* the C strings the interner holds
Interned == {NamesMap[k] : k \in {i \in DOMAIN NamesMap : NamesMap[i] # NULL}}

\* goroutine t takes the last step of a Settings.Close that freed its object
ClosesSettings(t) ==
    /\ fn[t] = "Settings.Close"
    /\ pc[t] \in {"Settings_Close_global", "Settings_Close_cleanup"}
    /\ pc'[t] = "done"

\* the other goroutines in the middle of a Settings.Close
OthersClosing(t) ==
    {u \in Threads \ {t} :
        /\ fn[u] = "Settings.Close"
        /\ pc[u] \in {"Settings_Close_ref", "Settings_Close_delete",
                      "Settings_Close_global", "Settings_Close_cleanup"}}

\* C22: a successful Settings.Close after which no Settings is open frees every
\* string the interner holds, once, and empties the interner; a Settings.Close
\* that leaves another Settings open, or fails with the still-referenced
\* error, frees no string.
C22_FlushOnLastClose ==
    [][\A t \in Threads :
          /\ (ClosesSettings(t) /\ OpenSettings' = {} /\ OthersClosing(t) = {}) =>
                 /\ \A c \in Interned : cstr[c] = "live" /\ cstr'[c] = "freed"
                 /\ Interned' = {}
          /\ (ClosesSettings(t) /\ OpenSettings' # {}) => cstr' = cstr
          /\ (pc[t] = "Settings_Close_ref" /\ pc'[t] = "done") => cstr' = cstr]_vars

\* C23: between two flushes of the interner a key has one C string: every live
\* C string is the string of exactly one key, and each goroutine that looked a
\* key up holds the string the interner has for that key, also when the
\* lookups of a key not yet cached run concurrently.
C23_OneStringPerKey ==
    /\ \A c \in DOMAIN cstr :
           cstr[c] = "live" =>
               Cardinality({k \in DOMAIN NamesMap : NamesMap[k] = c}) = 1
    /\ \A t \in Threads :
           (pc[t] \in {"SetInt_call", "SetInt_ret"} /\ cstr[name[t]] = "live") =>
               NamesMap[key[t]] = name[t]

\* two goroutines have looked the same key up, one after the other, before any
\* flush, and hold the same C string
C23_Witness ==
    \E t, u \in Threads :
        /\ t # u
        /\ pc[t] = "SetInt_ret" /\ pc[u] = "SetInt_ret"
        /\ key[t] = key[u]
        /\ name[t] = name[u]
        /\ cstr[name[t]] = "live"

\* C24: the strings of the interner are freed only when the global count of
\* Settings is zero and no Settings is open, and a string a Settings operation
\* got from a lookup is not freed while the operation passes it to the engine.
C24_NoFreeWhileInUse ==
    /\ [][(\E c \in DOMAIN cstr : cstr[c] = "live" /\ cstr'[c] # "live") =>
             (settingsRefCount = 0 /\ OpenSettings = {})]_vars
    /\ [](\A t \in Threads :
             pc[t] \in {"SetInt_call", "SetInt_ret"} => cstr[name[t]] = "live")

\* goroutine t takes a step in which its call returns the error msg
FailsWith(t, msg) ==
    /\ pc'[t] = "done"
    /\ ret'[t] = Err(msg)
    /\ pc[t] # "done" \/ ret[t] # ret'[t] \/ fn[t] # fn'[t]

\* C25: a constructor whose allocation returns no object fails with the
\* creation error, returns no handle and changes no shared state (a failed
\* NewSettings leaves the global count as it is, a failed NewSynth the
\* dependency counter of the Settings); a NewSettings that succeeds adds
\* exactly one to the global count.
C25_FailedConstructor ==
    [][\A t \in Threads :
          /\ FailsWith(t, "failed to create FluidSynth settings") =>
                 /\ fn'[t] = "NewSettings"
                 /\ obj'[t] = NULL
                 /\ UNCHANGED <<handles, outputs, heap, interner>>
          /\ FailsWith(t, "failed to create FluidSynth synthesizer") =>
                 /\ fn'[t] = "NewSynth"
                 /\ obj'[t] = NULL
                 /\ UNCHANGED <<handles, outputs, heap, interner>>
          /\ (fn[t] = "NewSettings" /\ pc[t] = "NewSettings_ref" /\ pc'[t] = "done") =>
                 /\ ret'[t] = NoErr
                 /\ settingsRefCount' = settingsRefCount + 1
          /\ (fn'[t] = "NewSettings" /\ pc'[t] = "NewSettings_ref" /\ pc[t] # pc'[t]) =>
                 settingsRefCount' = settingsRefCount]_vars

\* NewSynth has failed on an open Settings that no Synth references
C25_Witness ==
    \E t \in Threads :
        /\ fn[t] = "NewSynth"
        /\ pc[t] = "done"
        /\ ret[t] = Err("failed to create FluidSynth synthesizer")
        /\ ~settings[tgt[t]].closed
        /\ settings[tgt[t]].refCount = 0

\* the errors of a constructor for a nil or closed argument
ArgumentErrors ==
    {"settings cannot be nil", "settings is closed", "synth cannot be nil", "synth is closed"}

\* the step goroutine t takes ends its call with one of these errors, without
\* a handle, and allocates nothing
Rejected(t) ==
    /\ pc'[t] = "done"
    /\ ret'[t].err \in ArgumentErrors
    /\ obj'[t] = NULL
    /\ UNCHANGED <<heap, outputs, handles>>

\* C26: NewPlayer and NewFileRenderer called with a nil or closed Synth, and
\* NewAudioDriver called with a nil or closed Settings or a nil or closed Synth,
\* fail with an argument error, return no handle and allocate nothing. (A
\* closed handle stays closed; NewAudioDriver tests the Synth in its second
\* step, having changed nothing in its first.)
C26_ConstructorRejects ==
    [][\A t \in Threads :
          /\ (Starts(t) /\ fn'[t] \in {"NewPlayer", "NewFileRenderer"}
                /\ (tgt'[t] = NULL \/ synth[tgt'[t]].closed)) => Rejected(t)
          /\ (Starts(t) /\ fn'[t] = "NewAudioDriver"
                /\ (arg'[t] = NULL \/ tgt'[t] = NULL \/ settings[arg'[t]].closed)) =>
                 Rejected(t)
          /\ (Starts(t) /\ fn'[t] = "NewAudioDriver") =>
                 UNCHANGED <<heap, outputs, handles>> /\ obj'[t] = NULL
          /\ (pc[t] = "NewAudioDriver_synth" /\ pc'[t] # pc[t] /\ synth[tgt[t]].closed) =>
                 Rejected(t)
          /\ \A y \in SynthIds : synth[y].closed => synth'[y].closed
          /\ \A s \in SettingsIds : settings[s].closed => settings'[s].closed]_vars

\* NewAudioDriver has rejected a closed Synth given with an open Settings
C26_Witness ==
    \E t \in Threads :
        /\ fn[t] = "NewAudioDriver"
        /\ pc[t] = "done"
        /\ ret[t] = Err("synth is closed")
        /\ ~settings[arg[t]].closed

\* SpecJoin: the program has created a Settings and a Synth; its goroutines
\* create a Player, queue MIDI data, start the Player, stop it, join it and
\* close it, while the engine plays. A goroutine inside fluid_player_join is scheduled fairly.
JoinSteps(t) ==
    \/ \E y \in SynthIds : NewPlayer_closed(t, y)
    \/ NewPlayer_ptr(t)
    \/ NewPlayer_new(t)
    \/ \E p \in PlayerIds, n \in Lens : AddMem_closed(t, p, n)
    \/ AddMem_ptr(t)
    \/ AddMem_call(t)
    \/ AddMem_ret(t)
    \/ \E p \in PlayerIds : Play_closed(t, p)
    \/ Play_ptr(t)
    \/ Play_call(t)
    \/ Play_ret(t)
    \/ \E p \in PlayerIds : Stop_closed(t, p)
    \/ Stop_ptr(t)
    \/ Stop_call(t)
    \/ Stop_ret(t)
    \/ \E p \in PlayerIds : Join_closed(t, p)
    \/ Join_ptr(t)
    \/ Join_call(t)
    \/ Join_ret(t)
    \/ \E p \in PlayerIds : CallPlayerClose(t, p)
    \/ Player_Close_lock(t)
    \/ Player_Close_delete(t)

NextJoin ==
    \/ \E t \in Threads : JoinSteps(t)
    \/ \E p \in PlayerIds : PlaybackEnds(p)

SpecJoin == InitOut /\ [][NextJoin]_vars /\ \A t \in Threads : WF_vars(Join_ret(t))

\* goroutine t is inside fluid_player_join
Joining(t) == pc[t] = "Join_ret"

\* goroutine t is inside fluid_player_join on a player in playback state s
JoiningAt(t, s) == IF Joining(t) THEN playback[tgt[t]] = s ELSE FALSE

\* the steps of goroutine t inside Stop
StopSteps(t) == Stop_ptr(t) \/ Stop_call(t) \/ Stop_ret(t)

C29_AddMem ==
    [][\A t \in Threads :
          /\ (pc[t] = "AddMem_call" /\ pc'[t] # pc[t]) =>
                 IF frame[t].data = 0
                 THEN /\ pc'[t] = "done"
                      /\ ret'[t] = Err("empty MIDI data")
                      /\ frame'[t].sent = <<>>
                 ELSE /\ pc'[t] = "AddMem_ret"
                      /\ frame'[t].sent = <<frame[t].data>>
          /\ (pc[t] = "AddMem_ret" /\ pc'[t] # pc[t]) =>
                 /\ pc'[t] = "done"
                 /\ frame'[t].sent = <<frame[t].data>>
                 /\ ret'[t] = IF frame'[t].status = FLUID_FAILED THEN Err("Fail") ELSE NoErr]_vars

\* one AddMem was refused for its empty data, another forwarded its bytes and
\* failed in the engine
C29_Witness ==
    \E t, u \in Threads :
        /\ fn[t] = "Player.AddMem" /\ pc[t] = "done"
        /\ frame[t].data = 0 /\ ret[t] = Err("empty MIDI data")
        /\ fn[u] = "Player.AddMem" /\ pc[u] = "done"
        /\ frame[u].data = MaxLen /\ frame[u].sent = <<MaxLen>>
        /\ frame[u].status = FLUID_FAILED /\ ret[u] = Err("Fail")

\* SpecLoad: the program has created a Settings and a Synth; its goroutines
\* load and reload soundfonts and close the Synth.
SfIds == {0, 1, MaxInt}

LoadSteps(t) ==
    \/ \E y \in SynthIds, resetPresets \in BOOLEAN : SFLoad_closed(t, y, resetPresets)
    \/ SFLoad_ptr(t)
    \/ SFLoad_call(t)
    \/ SFLoad_ret(t)
    \/ \E y \in SynthIds, sfid \in SfIds : SFReload_closed(t, y, sfid)
    \/ SFReload_ptr(t)
    \/ SFReload_call(t)
    \/ SFReload_ret(t)
    \/ \E y \in SynthIds : CallSynthClose(t, y)
    \/ Synth_Close_lock(t)
    \/ Synth_Close_delete(t)
    \/ Synth_Close_decRef(t)

NextLoad == \E t \in Threads : LoadSteps(t)

SpecLoad == InitOut /\ [][NextLoad]_vars

\* the calls that load a soundfont
LoadFunctions == {"Synth.SFLoad", "Synth.SFReload"}

C30_ProcessBlock ==
    /\ [](\A t \in Threads :
             (fn[t] = "FileRenderer.ProcessBlock" /\ pc[t] = "done" /\ ret[t].val = 1) =>
                 ret[t].err = "nil" /\ frame[t].status = FLUID_OK)
    /\ [][\A t \in Threads :
             /\ (pc[t] = "ProcessBlock_ret" /\ Returns(t)) =>
                    /\ ret'[t].err = "nil"
                    /\ ret'[t].val = IF frame'[t].status = FLUID_OK THEN 1 ELSE 0
             /\ (Starts(t) /\ fn'[t] = "FileRenderer.ProcessBlock" /\ renderer[tgt'[t]].closed) =>
                    /\ pc'[t] = "done"
                    /\ ret'[t] = Err("FileRenderer is closed")
                    /\ ret'[t].val = 0]_vars

\* ProcessBlock returned false and no error for an engine status that is
\* neither FLUID_OK nor FLUID_FAILED
C30_Witness ==
    \E t \in Threads :
        /\ fn[t] = "FileRenderer.ProcessBlock" /\ pc[t] = "done"
        /\ ~renderer[tgt[t]].closed
        /\ frame[t].status \notin {FLUID_OK, FLUID_FAILED}
        /\ ret[t] = Value(0)

\* C31: the steps of a Settings.Close that fails with StillReferenced (its
\* call, its Lock and its test of the dependency counter) change nothing but
\* the Settings' lock, which is released at the return: the closed flag stays
\* false, the foreign pointer, the foreign object and the dependency counter
\* are as before, settingsRefCount is not decremented, settingNames and its C
\* strings are as before, and the finalizer stays registered.
C31_FailedCloseChangesNothing ==
    [][\A t \in Threads :
          LET s == tgt'[t] IN
          /\ (fn'[t] = "Settings.Close" /\ pc'[t] # pc[t]
                /\ pc'[t] \in {"Settings_Close_lock", "Settings_Close_ref"}) =>
                 /\ settings'[s] = [settings[s] EXCEPT !.mu = settings'[s].mu]
                 /\ UNCHANGED <<synth, heap, settingsRefCount, settingNames, cstr>>
          /\ (pc[t] = "Settings_Close_ref" /\ Returns(t)) =>
                 /\ ret'[t] = StillReferenced(settings[s].refCount)
                 /\ settings'[s] = [settings[s] EXCEPT !.mu = 0]
                 /\ ~settings'[s].closed
                 /\ settings'[s].fin
                 /\ settings'[s].ptr # NULL
                 /\ heap'[<<"settings", settings'[s].ptr>>] = "live"
                 /\ \A x \in SettingsIds \ {s} : settings'[x] = settings[x]
                 /\ UNCHANGED <<synth, heap, settingsRefCount, settingNames, cstr>>]_vars

\* a Settings.Close has returned StillReferenced on a Settings that has a
\* dependent Synth, is open, counted in settingsRefCount, and whose finalizer
\* is registered
C31_Witness ==
    \E t \in Threads :
        /\ pc[t] = "done" /\ fn[t] = "Settings.Close"
        /\ ret[t].err = StillReferenced(1).err /\ ret[t].n = settings[tgt[t]].refCount
        /\ ret[t].n > 0
        /\ ~settings[tgt[t]].closed /\ settings[tgt[t]].fin /\ settings[tgt[t]].mu = 0
        /\ settingsRefCount = 1

\* goroutines inside Close of a Synth created from Settings s
InSynthClose(s) ==
    {t \in Threads : fn[t] = "Synth.Close" /\ ~Free(t) /\ synth[tgt[t]].origin = s}

\* C32: the dependency counter of a Settings is never negative, and whenever
\* no goroutine is inside NewSynth on the Settings or inside Close of a Synth
\* created from it, the counter equals the number of open Synths that
\* reference the Settings.
C32_CounterIsOpenSynths ==
    \A s \in SettingsIds :
        /\ settings[s].refCount >= 0
        /\ (InNewSynth(s) = {} /\ InSynthClose(s) = {}) =>
               settings[s].refCount =
                   Cardinality({y \in SynthIds : ~synth[y].closed /\ synth[y].settings = s})

\* a Synth was closed, Close was called on it a second time and returned, and
\* another Synth of the same Settings is open: the counter is 1
C32_Witness ==
    \E t \in Threads, y \in SynthIds :
        /\ \A u \in Threads : Free(u)
        /\ pc[t] = "done" /\ fn[t] = "Synth.Close" /\ ret[t] = NoErr
        /\ \E u \in Threads \ {t} : fn[u] = "Synth.Close" /\ tgt[u] = tgt[t]
        /\ synth[tgt[t]].closed /\ synth[tgt[t]].origin = 1
        /\ y # tgt[t] /\ ~synth[y].closed /\ synth[y].settings = 1
        /\ settings[1].refCount = 1

\* goroutines inside NewSettings or Settings.Close
InSettingsCalls == {t \in Threads : fn[t] \in {"NewSettings", "Settings.Close"} /\ ~Free(t)}

EveryHandleClosed ==
    /\ \A s \in DOMAIN settings : settings[s].made => settings[s].closed /\ settings[s].mu = 0
    /\ \A y \in SynthIds : synth[y].made => synth[y].closed /\ synth[y].mu = 0
    /\ \A p \in PlayerIds : player[p].made => player[p].closed /\ player[p].mu = 0
    /\ \A d \in DriverIds : driver[d].made => driver[d].closed /\ driver[d].mu = 0
    /\ \A r \in RendererIds : renderer[r].made => renderer[r].closed /\ renderer[r].mu = 0

\* C34: when no call is in progress and every handle the program created is
\* closed, no foreign object and no interned C string is allocated, and none
\* was freed twice.
C34_NothingLeftAllocated ==
    ((\A t \in Threads : Free(t)) /\ EveryHandleClosed) =>
        /\ \A o \in DOMAIN heap : heap[o] \in {"none", "freed"}
        /\ \A c \in DOMAIN cstr : cstr[c] \in {"none", "freed"}

\* SpecArgs: the program has created a Settings and a Synth; its goroutines
\* create and close a Player, close the Synth, and call the operations that
\* test their arguments with valid and invalid arguments.
ArgModes == {TEMPO_INTERNAL - 1, TEMPO_EXTERNAL_BPM, TEMPO_EXTERNAL_MIDI + 1}
ArgLens == {0, 1}
ArgStrides == {0, 1}

ArgSteps(t) ==
    \/ \E y \in SynthIds : NewPlayer_closed(t, y)
    \/ NewPlayer_ptr(t)
    \/ NewPlayer_new(t)
    \/ \E p \in PlayerIds : CallPlayerClose(t, p)
    \/ Player_Close_lock(t)
    \/ Player_Close_delete(t)
    \/ \E y \in SynthIds : CallSynthClose(t, y)
    \/ Synth_Close_lock(t)
    \/ Synth_Close_delete(t)
    \/ Synth_Close_decRef(t)
    \/ \E p \in PlayerIds, mode \in ArgModes : SetTempo_closed(t, p, mode)
    \/ SetTempo_ptr(t)
    \/ SetTempo_call(t)
    \/ SetTempo_ret(t)
    \/ \E p \in PlayerIds, n \in ArgLens : AddMem_closed(t, p, n)
    \/ AddMem_ptr(t)
    \/ AddMem_call(t)
    \/ AddMem_ret(t)
    \/ \E y \in SynthIds, l, r \in ArgLens, ls, rs \in ArgStrides :
           WriteS16_closed(t, y, l, r, ls, rs)
    \/ \E y \in SynthIds, l \in ArgLens, ls \in ArgStrides :
           WriteFloat_closed(t, y, l, l, ls, ls)
    \/ WriteSteps(t)

NextArgs == \E t \in Threads : ArgSteps(t)

SpecArgs == InitOut /\ [][NextArgs]_vars

\* the operations that test the handle and their arguments, with the error of
\* a closed handle
ArgFunctions == {"Player.SetTempo", "Player.AddMem", "Synth.WriteS16", "Synth.WriteFloat"}
ArgClosedError(f) ==
    IF f \in {"Player.SetTempo", "Player.AddMem"}
    THEN Err("player is closed") ELSE Err("Synth is closed")
ArgClosed(f, h) ==
    IF f \in {"Player.SetTempo", "Player.AddMem"} THEN player[h].closed ELSE synth[h].closed

\* the errors of the argument tests
ArgErrors ==
    {"invalid tempo type: %d", "empty MIDI data",
     "left and right slices must not be empty", "no frames to write",
     "panic: runtime error: integer divide by zero"}

\* C35: SetTempo, AddMem, WriteS16 and WriteFloat started on a handle whose
\* closed flag is set return the closed-handle error in their first step,
\* whatever their arguments, with nothing handed to the engine; an error of an
\* argument test (or the panic of a zero stride) comes only from the step
\* after validate().
C35_LivenessFirst ==
    [][\A t \in Threads :
          /\ (Starts(t) /\ fn'[t] \in ArgFunctions /\ ArgClosed(fn'[t], tgt'[t])) =>
                 /\ pc'[t] = "done"
                 /\ ret'[t] = ArgClosedError(fn'[t])
                 /\ frame'[t].sent = <<>>
          /\ (fn'[t] \in ArgFunctions /\ pc'[t] # pc[t] /\ ret'[t].err \in ArgErrors) =>
                 pc[t] \in {"SetTempo_call", "AddMem_call", "WriteS16_call", "WriteFloat_call"}]_vars

\* AddMem with zero-length data on a closed Player and WriteS16 with empty
\* buffers and zero strides on a closed Synth both returned the closed-handle
\* error
C35_Witness ==
    \E t, u \in Threads :
        /\ pc[t] = "done" /\ fn[t] = "Player.AddMem" /\ frame[t].data = 0
        /\ ret[t] = Err("player is closed")
        /\ pc[u] = "done" /\ fn[u] = "Synth.WriteS16"
        /\ frame[u].left = 0 /\ frame[u].lstride = 0
        /\ ret[u] = Err("Synth is closed")

\* C36: settingNames never holds a freed C string (a nil map holds none), and
\* a key lookup returns an allocated string that the map holds for the key
\* from then on; a lookup that finds the map nil, as the flush leaves it,
\* makes a map with that key alone and a string that was never allocated
\* before.
C36_LookupAfterFlush ==
    /\ [](\A k \in DOMAIN NamesMap :
             /\ NamesMap[k] # NULL => cstr[NamesMap[k]] = "live"
             /\ settingNames.isNil => NamesMap[k] = NULL)
    /\ [][\A t \in Threads :
             (pc[t] = "SetInt_cname" /\ pc'[t] # pc[t]) =>
                 /\ pc'[t] = "SetInt_call"
                 /\ cstr'[name'[t]] = "live"
                 /\ ~settingNames'.isNil
                 /\ settingNames'.at[key[t]] = name'[t]
                 /\ settingNames.isNil =>
                        /\ cstr[name'[t]] = "none"
                        /\ \A k \in DOMAIN NamesMap \ {key[t]} : settingNames'.at[k] = NULL]_vars

\* the strings of all keys were freed by a flush, and a lookup made for a
\* Settings created since has returned a new string for its key
C36_Witness ==
    \E t \in Threads :
        /\ pc[t] = "SetInt_call"
        /\ Cardinality({c \in DOMAIN cstr : cstr[c] = "freed"}) = NNameKeys
        /\ \E s \in DOMAIN settings : settings[s].closed /\ settings[s].mu = 0
        /\ ~settings[tgt[t]].closed /\ settingsRefCount = 1
        /\ cstr[name[t]] = "live"
        /\ NamesMap[key[t]] = name[t]
        /\ \A k \in DOMAIN NamesMap \ {key[t]} : NamesMap[k] = NULL

====
